---------------------------- MODULE Spec2Model ----------------------------
(***************************************************************************)
(* Model of the geometry core of dxf-viewer-canvas:                        *)
(*   - HatchBoundaryResolver (src/src/app.js)                              *)
(*   - WeightManager chain assembly (src/src/weight-manager.js)            *)
(*   - DXFViewerApp.extractAllLoops (src/src/app.js)                       *)
(*   - DXFParser (src/src/dxf-parser.js)                                   *)
(*                                                                         *)
(* Numbers.  Coordinates are integers (world units).  Distances are kept   *)
(* squared, so that `Math.hypot(..) < tol` is decided exactly.  Angles are *)
(* kept in quadrants: the model angle q stands for q * (pi/2) radians, and *)
(* q * 90 degrees; every arc of the model starts and ends on an axis.      *)
(* A value a + b*(pi/2) is kept as the pair (a, b).                        *)
(***************************************************************************)
EXTENDS Integers, Sequences, FiniteSets, TLC

VARIABLES
    hLoop,      \* resolveLoop: the loop argument
    hPc,        \* resolveLoop: position ("idle", "stitch", "done", "threw")
    hEdges,     \* resolveEdgeLoop: edges (after normalizeEdge)
    hUsed,      \* resolveEdgeLoop: used (a JS Set, kept in insertion order)
    hPath,      \* resolveEdgeLoop: path
    hCurrent,   \* resolveEdgeLoop: current
    hLog,       \* console.warn lines written by resolveEdgeLoop
    hResult,    \* value returned by resolveLoop
    cObjects,   \* findAllChains / analyzeChain: the objects argument
    cPc,        \* findAllChains: position ("idle", "loop", "done")
    cSegs,      \* findAllChains: allSegments, with their used flags
    cResults,   \* findAllChains: results
    cChain,     \* findAllChains: chain, as the last buildChainFromSegment returned it
    cPasses,    \* findAllChains: passes of the outer while loop so far
    aObjects,   \* analyzeChain: the objects argument
    aPc,        \* analyzeChain: position ("idle", "done")
    aOrdered,   \* analyzeChain: ordered, when it returns
    aResult,    \* value returned by analyzeChain
    lEntities,  \* extractAllLoops: the entities argument
    lPc,        \* extractAllLoops: position ("idle", "prune", "extract", "done")
    lSegments,  \* extractAllLoops: segments
    lUsed,      \* extractAllLoops: used (indexes counted from 1)
    lLoops,     \* extractAllLoops: loops
    lLoopIndices, \* extractAllLoops: currentLoopIndices of each loop pushed
    lI,         \* extractAllLoops: i of the extraction loop (counted from 1)
    pParser,    \* the DXFParser instance: entities, layers, linetypes, header, blocks
    pLines,     \* parse: lines of the last call
    pResult,    \* value returned by the last call of parse
    pCalls,     \* calls of parse so far
    dVertices,  \* decomposeComplexLoops: the vertices argument
    dPc,        \* decomposeComplexLoops: position ("idle", "done")
    dResult,    \* value returned by decomposeComplexLoops
    fEntities,  \* findConnectedLoops: the entities argument
    fPc,        \* findConnectedLoops: position ("idle", "done")
    fResult,    \* value returned by findConnectedLoops (entities by their index)
    gEntities,  \* calculateArea: the entities argument
    gPc,        \* calculateArea: position ("idle", "done")
    gResult,    \* value returned by calculateArea
    oEntities,  \* dxfData.entities, with their layer and visible fields
    oLayers,    \* renderer.layers: the visible flag of each layer of the map
    oScale,     \* renderer.viewport.scale, in pixels per world unit
    oModes,     \* OSNAPSystem.snapModes
    oPc,        \* the last event ("idle", "loaded", "moved", "edited")
    oCursor,    \* findSnapPoint: worldPos of the last call
    oReference, \* findSnapPoint: referencePoint of the last call
    oSnap,      \* renderer.snapPoint: the value findSnapPoint returned last
    mActiveTool,      \* MeasurementTools.activeTool
    mPoints,          \* MeasurementTools.measurementPoints
    mCurrent,         \* MeasurementTools.currentMeasurement
    mIntersection,    \* MeasurementTools.intersectionPoint
    mSmartMode,       \* MeasurementTools.currentSmartMode
    mReferenceEntity, \* MeasurementTools.referenceEntity
    mMeasurements,    \* renderer.measurements
    mResult,          \* what handleClick returned at the last event, or the error it threw
    mClicks,          \* the number of clicks handled
    mEvent,           \* the last event ("none", "tool", "click", "move", "escape")
    kCall,      \* a geometry function called on its own: its name and arguments
    kPc,        \* that call: position ("idle", "done")
    kResult     \* the value that call returned

hvars == <<hLoop, hPc, hEdges, hUsed, hPath, hCurrent, hLog, hResult>>

cvars == <<cObjects, cPc, cSegs, cResults, cChain, cPasses,
          aObjects, aPc, aOrdered, aResult>>

lvars == <<lEntities, lPc, lSegments, lUsed, lLoops, lLoopIndices, lI>>

pvars == <<pParser, pLines, pResult, pCalls>>

dvars == <<dVertices, dPc, dResult>>

fvars == <<fEntities, fPc, fResult>>

gvars == <<gEntities, gPc, gResult>>

ovars == <<oEntities, oLayers, oScale, oModes, oPc, oCursor, oReference, oSnap>>

mvars == <<mActiveTool, mPoints, mCurrent, mIntersection, mSmartMode, mReferenceEntity,
          mMeasurements, mResult, mClicks, mEvent>>

kvars == <<kCall, kPc, kResult>>

vars == <<hvars, cvars, lvars, pvars, dvars, fvars, gvars, ovars, mvars, kvars>>

(***************************************************************************)
(* Bounds                                                                  *)
(***************************************************************************)
MaxEdges == 3        \* longest edge list of an edge-style loop
MaxVerts == 3        \* longest vertex list of a polyline-style loop
MaxObjects == 3      \* longest object list given to findAllChains / analyzeChain
MaxEntities == 3     \* longest list of arbitrary entities given to extractAllLoops
MaxReversed == 1     \* sides of the bridged drawing that are drawn the other way round
MaxCalls == 2        \* calls of parse on the one parser instance
MaxLoopVerts == 5    \* longest vertex list given to decomposeComplexLoops
MaxSelected == 3     \* longest selection given to findConnectedLoops
MaxShapes == 3       \* most outlines in a selection given to calculateArea
MaxSwitchedOff == 2  \* most entities, layers and snap modes switched off at a time
MaxClicks == 5       \* most clicks handled with a measurement tool active

(***************************************************************************)
(* Generic helpers                                                         *)
(***************************************************************************)
Null == [type |-> "null"]                  \* JS null / undefined
Infinity == -1                             \* JS Infinity, for squared distances
NaN == [nan |-> TRUE, i |-> 0, p |-> 0]    \* JS NaN, for areas

Range(s) == {s[k] : k \in 1..Len(s)}
Reverse(s) == [k \in 1..Len(s) |-> s[Len(s) + 1 - k]]
MaxOf(a, b) == IF a >= b THEN a ELSE b
MinOf(a, b) == IF a <= b THEN a ELSE b
SeqsUpTo(S, n) == UNION {[1..k -> S] : k \in 0..n}

\* cos and sin of q quadrants
CosQ(q) == CASE q % 4 = 0 -> 1 [] q % 4 = 1 -> 0 [] q % 4 = 2 -> -1 [] OTHER -> 0
SinQ(q) == CASE q % 4 = 0 -> 0 [] q % 4 = 1 -> 1 [] q % 4 = 2 -> 0 [] OTHER -> -1

\* Math.atan2(vy, vx) in quadrants, for a vector on an axis
Atan2Q(vy, vx) ==
    CASE vy = 0 /\ vx > 0 -> 0
      [] vx = 0 /\ vy > 0 -> 1
      [] vy = 0 /\ vx < 0 -> 2
      [] OTHER            -> -1

\* the sign of a + b*(pi/2): pi/2 is replaced by 355/226, which decides the
\* sign of every a + b*(pi/2) with |b| < 30000
IsNegative(a, b) == a <= ((0 - 355 * b) - 1) \div 226
IsZero(a, b) == a = 0 /\ b = 0


(***************************************************************************)
(* HatchBoundaryResolver: geometry                                         *)
(***************************************************************************)
\* squared Math.hypot(x1 - x2, y1 - y2)
dist(x1, y1, x2, y2) == (x1 - x2) * (x1 - x2) + (y1 - y2) * (y1 - y2)

\* degrees -> radians (a * Math.PI / 180), in quadrants
Rad(deg) == deg \div 90

computeBBox(edges) ==
    LET xs == {edges[k].x1 : k \in 1..Len(edges)} \cup {edges[k].x2 : k \in 1..Len(edges)}
        ys == {edges[k].y1 : k \in 1..Len(edges)} \cup {edges[k].y2 : k \in 1..Len(edges)}
        minx == CHOOSE v \in xs : \A w \in xs : v <= w
        maxx == CHOOSE v \in xs : \A w \in xs : v >= w
        miny == CHOOSE v \in ys : \A w \in ys : v <= w
        maxy == CHOOSE v \in ys : \A w \in ys : v >= w
    IN  [diag |-> (maxx - minx) * (maxx - minx) + (maxy - miny) * (maxy - miny)]

\* tol = Math.max(bbox.diag * 1e-4, 1e-4), squared and multiplied by TolScale:
\* tol^2 = TolSq(edges) / TolScale
TolScale == 100000000
TolSq(edges) == MaxOf(computeBBox(edges).diag, 1)
\* d < tol and d > tol, for a squared distance d and t = TolSq(edges)
LessTol(d, t) == d <= (t - 1) \div TolScale
MoreTol(d, t) == d > t \div TolScale

normalizeEdge(e) ==
    IF e.type = 1 THEN
        [type |-> "LINE", x1 |-> e.x1, y1 |-> e.y1, x2 |-> e.x2, y2 |-> e.y2]
    ELSE IF e.type = 2 THEN
        LET ccw   == (e.ccw = 1)
            a1raw == Rad(e.startAngle)
            a2raw == Rad(e.endAngle)
            a1w   == IF ccw THEN a1raw ELSE 0 - a1raw
            a2w   == IF ccw THEN a2raw ELSE 0 - a2raw
        IN  [type |-> "ARC", cx |-> e.cx, cy |-> e.cy, radius |-> e.radius,
             startAngle |-> 0 - a1w, endAngle |-> 0 - a2w,
             isCounterClockwise |-> ccw, nan |-> FALSE,
             x1 |-> e.cx + e.radius * CosQ(a1w), y1 |-> e.cy + e.radius * SinQ(a1w),
             x2 |-> e.cx + e.radius * CosQ(a2w), y2 |-> e.cy + e.radius * SinQ(a2w)]
    ELSE Null

\* Fault for C5: the direction is reversed but the end points stay in place
reverseEdge_KeepsEnds(e) ==
    IF e.type = "ARC" THEN
        [e EXCEPT !.startAngle = e.endAngle, !.endAngle = e.startAngle,
                  !.isCounterClockwise = ~e.isCounterClockwise]
    ELSE e
reverseEdge(e) ==
    IF e.type = "LINE" THEN
        [e EXCEPT !.x1 = e.x2, !.y1 = e.y2, !.x2 = e.x1, !.y2 = e.y1]
    ELSE IF e.type = "ARC" THEN
        [e EXCEPT !.startAngle = e.endAngle, !.endAngle = e.startAngle,
                  !.isCounterClockwise = ~e.isCounterClockwise,
                  !.x1 = e.x2, !.y1 = e.y2, !.x2 = e.x1, !.y2 = e.y1]
    ELSE e

reversePath(path) == [k \in 1..Len(path) |-> reverseEdge(path[Len(path) + 1 - k])]

\* the sweep of an ARC segment as calculateLoopArea normalises it (quadrants)
Sweep(s) ==
    LET raw == (0 - s.endAngle) - (0 - s.startAngle)
    IN  IF s.isCounterClockwise
        THEN (IF raw > 0 THEN raw ELSE IF raw % 4 = 0 THEN 4 ELSE raw % 4)
        ELSE (IF raw < 0 THEN raw ELSE (raw % 4) - 4)

\* calculateLoopArea: the returned value is (i + p * (pi/2)) * 0.5, or NaN
RECURSIVE LoopAreaSum(_, _)
LoopAreaSum(path, k) ==
    IF k > Len(path) THEN [nan |-> FALSE, i |-> 0, p |-> 0]
    ELSE LET s    == path[k]
             rest == LoopAreaSum(path, k + 1)
             lin  == s.x1 * s.y2 - s.y1 * s.x2
         IN  IF s.type = "ARC" THEN
                 IF s.nan \/ rest.nan THEN NaN
                 ELSE [nan |-> FALSE,
                       i |-> rest.i + lin - s.radius * s.radius * SinQ(Sweep(s)),
                       p |-> rest.p + s.radius * s.radius * Sweep(s)]
             ELSE [rest EXCEPT !.i = rest.i + lin]
calculateLoopArea(path) == LoopAreaSum(path, 1)

AreaNegative(a) == ~a.nan /\ IsNegative(a.i, a.p)       \* area < 0
AreaNonNegative(a) == ~a.nan /\ ~IsNegative(a.i, a.p)   \* area >= 0

\* HatchBoundaryResolver.bulgeToArc, for bulge in {-1, 1} (theta = -pi, pi) and
\* a chord that lies on an axis and has even length
bulgeToArc(p1, p2, bulge) ==
    LET theta == 2 * bulge
        dx    == p2.x - p1.x
        dy    == p2.y - p1.y
        chord == (IF dx < 0 THEN 0 - dx ELSE dx) + (IF dy < 0 THEN 0 - dy ELSE dy)
        r     == (chord \div 2) * SinQ(theta \div 2)
        cx    == (p1.x + p2.x) \div 2
        cy    == (p1.y + p2.y) \div 2
    IN  IF chord = 0 THEN
            \* nx = -dy / chord = NaN: centre and angles are NaN, radius is 0
            [type |-> "ARC", cx |-> 0, cy |-> 0, radius |-> 0,
             startAngle |-> 0, endAngle |-> 0,
             isCounterClockwise |-> bulge > 0, nan |-> TRUE,
             x1 |-> p1.x, y1 |-> p1.y, x2 |-> p2.x, y2 |-> p2.y]
        ELSE
            [type |-> "ARC", cx |-> cx, cy |-> cy,
             radius |-> IF r < 0 THEN 0 - r ELSE r,
             startAngle |-> 0 - Atan2Q(p1.y - cy, p1.x - cx),
             endAngle |-> 0 - Atan2Q(p2.y - cy, p2.x - cx),
             isCounterClockwise |-> bulge > 0, nan |-> FALSE,
             x1 |-> p1.x, y1 |-> p1.y, x2 |-> p2.x, y2 |-> p2.y]

\* the winding normalisation that ends resolveEdgeLoop and resolvePolylineLoop
NormalizeWinding(path) ==
    IF AreaNegative(calculateLoopArea(path))
    THEN [ok |-> TRUE, path |-> reversePath(path)]
    ELSE [ok |-> TRUE, path |-> path]

resolvePolylineLoop(loop) ==
    LET verts == loop.vertices
        n     == Len(verts)
        path  == [k \in 1..n |->
                    LET p1 == verts[k]
                        p2 == verts[(k % n) + 1]
                    IN  IF p1.bulge # 0
                        THEN bulgeToArc(p1, p2, p1.bulge)
                        ELSE [type |-> "LINE", x1 |-> p1.x, y1 |-> p1.y,
                              x2 |-> p2.x, y2 |-> p2.y]]
    IN  IF n < 2 THEN [ok |-> FALSE, reason |-> "invalid polyline"]
        ELSE NormalizeWinding(path)


(***************************************************************************)
(* HatchBoundaryResolver.resolveEdgeLoop, one stitching pass at a time     *)
(***************************************************************************)
\* first loop of a pass: the first unused edge that touches the tip
TouchesStart(e, tip, t) == LessTol(dist(e.x1, e.y1, tip.x, tip.y), t)
TouchesEnd(e, tip, t)   == LessTol(dist(e.x2, e.y2, tip.x, tip.y), t)
FirstMatch(edges, used, tip, t) ==
    LET cand == {k \in 1..Len(edges) : /\ k \notin Range(used)
                                       /\ \/ TouchesStart(edges[k], tip, t)
                                          \/ TouchesEnd(edges[k], tip, t)}
    IN  IF cand = {} THEN 0 ELSE CHOOSE k \in cand : \A j \in cand : k <= j

\* second loop of a pass (auto-bridge): the closest remaining endpoint
DLess(d, m) == m = Infinity \/ d < m
RECURSIVE BridgeScan(_, _, _, _, _)
BridgeScan(edges, used, tip, k, best) ==
    IF k > Len(edges) THEN best
    ELSE IF k \in Range(used) THEN BridgeScan(edges, used, tip, k + 1, best)
    ELSE LET e      == edges[k]
             dStart == dist(e.x1, e.y1, tip.x, tip.y)
             dEnd   == dist(e.x2, e.y2, tip.x, tip.y)
             b1 == IF DLess(dStart, best.minDist)
                   THEN [minDist |-> dStart, bestIdx |-> k, connectToStart |-> TRUE]
                   ELSE best
             b2 == IF DLess(dEnd, b1.minDist)
                   THEN [minDist |-> dEnd, bestIdx |-> k, connectToStart |-> FALSE]
                   ELSE b1
         IN  BridgeScan(edges, used, tip, k + 1, b2)
\* Fault for C3: an endpoint farther than 50 units from the tip is not bridged to
ClosestRemaining_GapLimit(edges, used, tip) ==
    LET b == BridgeScan(edges, used, tip, 1,
                        [minDist |-> Infinity, bestIdx |-> -1, connectToStart |-> TRUE])
    IN  IF b.minDist > 50 * 50
        THEN [minDist |-> Infinity, bestIdx |-> -1, connectToStart |-> TRUE]
        ELSE b
ClosestRemaining(edges, used, tip) ==
    BridgeScan(edges, used, tip, 1,
               [minDist |-> Infinity, bestIdx |-> -1, connectToStart |-> TRUE])

BridgeLine(x1, y1, x2, y2) ==
    [type |-> "LINE", x1 |-> x1, y1 |-> y1, x2 |-> x2, y2 |-> y2]

\* resolveLoop(loop): dispatch, normalizeEdge, computeBBox, first edge
HBegin(loop) ==
    /\ hPc = "idle"
    /\ IF loop = Null THEN
           /\ hResult' = Null
           /\ hPc' = "done"
           /\ UNCHANGED <<hEdges, hUsed, hPath, hCurrent, hLog>>
       ELSE IF loop.isPolyline THEN
           /\ hResult' = resolvePolylineLoop(loop)
           /\ hPc' = "done"
           /\ UNCHANGED <<hEdges, hUsed, hPath, hCurrent, hLog>>
       ELSE IF Len(loop.edges) = 0 THEN
           /\ hResult' = [ok |-> FALSE, reason |-> "no edges"]
           /\ hPc' = "done"
           /\ UNCHANGED <<hEdges, hUsed, hPath, hCurrent, hLog>>
       ELSE LET edges == [k \in 1..Len(loop.edges) |-> normalizeEdge(loop.edges[k])]
            IN  IF \E k \in 1..Len(edges) : edges[k] = Null THEN
                    \* computeBBox reads e.x1 of null: TypeError
                    /\ hEdges' = edges
                    /\ hPc' = "threw"
                    /\ UNCHANGED <<hUsed, hPath, hCurrent, hLog, hResult>>
                ELSE
                    /\ hEdges' = edges
                    /\ hCurrent' = edges[1]
                    /\ hUsed' = <<1>>
                    /\ hPath' = <<edges[1]>>
                    /\ hPc' = "stitch"
                    /\ UNCHANGED <<hLog, hResult>>
    /\ hLoop' = loop

\* one pass of `while (path.length < edges.length)`
HStitch ==
    /\ hPc = "stitch"
    /\ Len(hPath) < Len(hEdges)
    /\ LET t   == TolSq(hEdges)
           tip == [x |-> hCurrent.x2, y |-> hCurrent.y2]
           m   == FirstMatch(hEdges, hUsed, tip, t)
           b   == ClosestRemaining(hEdges, hUsed, tip)
       IN  IF m # 0 THEN
               LET e    == hEdges[m]
                   next == IF TouchesStart(e, tip, t) THEN e ELSE reverseEdge(e)
               IN  /\ hPath' = Append(hPath, next)
                   /\ hUsed' = Append(hUsed, m)
                   /\ hCurrent' = next
                   /\ UNCHANGED <<hPc, hLog, hResult>>
           ELSE IF b.bestIdx # -1 THEN
               LET target    == hEdges[b.bestIdx]
                   next      == IF b.connectToStart THEN target ELSE reverseEdge(target)
                   bridged   == MoreTol(b.minDist, t)
                   withBridge == IF bridged
                                 THEN Append(hPath, BridgeLine(tip.x, tip.y, next.x1, next.y1))
                                 ELSE hPath
               IN  /\ hPath' = Append(withBridge, next)
                   /\ hLog' = IF bridged THEN Append(hLog, "HATCH_REPAIR: Bridging gap")
                              ELSE hLog
                   /\ hUsed' = Append(hUsed, b.bestIdx)
                   /\ hCurrent' = next
                   /\ UNCHANGED <<hPc, hResult>>
           ELSE
               /\ hLog' = Append(hLog, "STITCH_FAIL")
               /\ hResult' = [ok |-> FALSE, reason |-> "stitch failed", path |-> hPath]
               /\ hPc' = "done"
               /\ UNCHANGED <<hPath, hUsed, hCurrent>>
    /\ UNCHANGED <<hLoop, hEdges>>

\* after the while loop: final bridge, winding normalisation, return
HFinish ==
    /\ hPc = "stitch"
    /\ Len(hPath) >= Len(hEdges)
    /\ LET t         == TolSq(hEdges)
           first     == hPath[1]
           last      == hPath[Len(hPath)]
           closeDist == dist(first.x1, first.y1, last.x2, last.y2)
           gap       == MoreTol(closeDist, t)
           path      == IF gap
                        THEN Append(hPath, BridgeLine(last.x2, last.y2, first.x1, first.y1))
                        ELSE hPath
       IN  /\ hPath' = path
           /\ hLog' = IF gap THEN Append(hLog, "HATCH_REPAIR: Closing loop gap") ELSE hLog
           /\ hResult' = NormalizeWinding(path)
    /\ hPc' = "done"
    /\ UNCHANGED <<hLoop, hEdges, hUsed, hCurrent>>


(***************************************************************************)
(* Hatch loops given to resolveLoop                                        *)
(***************************************************************************)
LineEdge(x1, y1, x2, y2) == [type |-> 1, x1 |-> x1, y1 |-> y1, x2 |-> x2, y2 |-> y2]
ArcEdge(cx, cy, r, a1, a2, ccw) ==
    [type |-> 2, cx |-> cx, cy |-> cy, radius |-> r,
     startAngle |-> a1, endAngle |-> a2, ccw |-> ccw]

Far == 10000     \* a coordinate far enough for the adaptive tolerance to reach 1

\* sides and diagonal of the unit square, a quarter arc over its corner in both
\* encodings, edges of a long thin loop, and an elliptical edge (type 3)
RawEdges ==
    { LineEdge(0, 0, 1, 0), LineEdge(1, 0, 0, 0), LineEdge(1, 0, 1, 1),
      LineEdge(1, 1, 0, 1), LineEdge(0, 1, 0, 0), LineEdge(1, 1, 0, 0),
      ArcEdge(0, 0, 1, 0, 90, 1), ArcEdge(0, 0, 1, 270, 0, 0),
      LineEdge(0, 0, Far, 0), LineEdge(Far, 0, 1, 0), LineEdge(Far, 1, 1, 0),
      [type |-> 3] }

Vertex(x, y, b) == [x |-> x, y |-> y, bulge |-> b]
RawVertices ==
    { Vertex(0, 0, 0), Vertex(2, 0, 0), Vertex(2, 2, 0), Vertex(0, 2, 0),
      Vertex(0, 0, 1), Vertex(2, 0, -1), Vertex(2, 2, 1) }

\* a bulged vertex is followed by a vertex on the same horizontal or vertical
OnAxis(verts) ==
    \A k \in 1..Len(verts) :
        verts[k].bulge # 0 =>
            LET q == verts[(k % Len(verts)) + 1]
            IN  verts[k].x = q.x \/ verts[k].y = q.y

EdgeLoops == {[isPolyline |-> FALSE, edges |-> es, vertices |-> <<>>] :
                 es \in SeqsUpTo(RawEdges, MaxEdges)}
PolylineLoops == {[isPolyline |-> TRUE, edges |-> <<>>, vertices |-> vs] :
                     vs \in {v \in SeqsUpTo(RawVertices, MaxVerts) : OnAxis(v)}}
HatchLoops == {Null} \cup EdgeLoops \cup PolylineLoops

(***************************************************************************)
(* WeightManager: segments and chains                                      *)
(*                                                                         *)
(* An object is named by its index in the objects argument.  A bulge is    *)
(* kept as the quadrant count q of its arc: bulge = tan(q * pi/8).         *)
(***************************************************************************)
Pt(x, y) == [x |-> x, y |-> y]
distanceTo(p, q) == (p.x - q.x) * (p.x - q.x) + (p.y - q.y) * (p.y - q.y)  \* squared

ChainTolerance == 2
\* d < tolerance, for a squared distance d
WithinChainTol(d) == d < ChainTolerance * ChainTolerance

estimateBulge(arcEntity) ==
    LET theta == Rad(arcEntity.endAngle) - Rad(arcEntity.startAngle)
    IN  IF theta < 0 THEN theta + 4 ELSE theta

extractSegment(objects, id) ==
    LET obj == objects[id]
        entity == obj.entity
    IN  IF obj.type = "LINE" THEN
            IF entity = Null \/ "startPoint" \notin DOMAIN entity
                             \/ "endPoint" \notin DOMAIN entity
            THEN Null
            ELSE [object |-> id, p1 |-> entity.startPoint, p2 |-> entity.endPoint,
                  bulge |-> 0]
        ELSE IF obj.type = "ARC" THEN
            IF entity = Null \/ "center" \notin DOMAIN entity
                             \/ "radius" \notin DOMAIN entity
            THEN Null
            ELSE [object |-> id,
                  p1 |-> Pt(entity.center.x + entity.radius * CosQ(Rad(entity.startAngle)),
                            entity.center.y + entity.radius * SinQ(Rad(entity.startAngle))),
                  p2 |-> Pt(entity.center.x + entity.radius * CosQ(Rad(entity.endAngle)),
                            entity.center.y + entity.radius * SinQ(Rad(entity.endAngle))),
                  bulge |-> estimateBulge(entity)]
        ELSE Null

\* the segments of the objects that have one, in order
RECURSIVE ExtractAll(_, _)
ExtractAll(objects, id) ==
    IF id > Len(objects) THEN <<>>
    ELSE LET seg == extractSegment(objects, id)
         IN  IF seg = Null THEN ExtractAll(objects, id + 1)
             ELSE <<seg>> \o ExtractAll(objects, id + 1)

Flipped(seg) ==
    [object |-> seg.object, p1 |-> seg.p2, p2 |-> seg.p1,
     bulge |-> IF seg.bulge # 0 THEN 0 - seg.bulge ELSE 0]

\* the scan of buildChainFromSegment for the closest unused segment
RECURSIVE ClosestScan(_, _, _, _)
ClosestScan(segs, currentEnd, k, best) ==
    IF k > Len(segs) THEN best
    ELSE IF segs[k].used THEN ClosestScan(segs, currentEnd, k + 1, best)
    ELSE LET dist1 == distanceTo(currentEnd, segs[k].p1)
             dist2 == distanceTo(currentEnd, segs[k].p2)
             b1 == IF dist1 < best.bestDist
                   THEN [bestDist |-> dist1, bestIdx |-> k, bestFlip |-> FALSE]
                   ELSE best
             b2 == IF dist2 < b1.bestDist
                   THEN [bestDist |-> dist2, bestIdx |-> k, bestFlip |-> TRUE]
                   ELSE b1
         IN  ClosestScan(segs, currentEnd, k + 1, b2)
\* Fault for C7: the first unused segment within the tolerance is taken, not
\* the closest
ClosestUnused_FirstWithin(segs, currentEnd) ==
    LET hit == {k \in 1..Len(segs) :
                   /\ ~segs[k].used
                   /\ \/ WithinChainTol(distanceTo(currentEnd, segs[k].p1))
                      \/ WithinChainTol(distanceTo(currentEnd, segs[k].p2))}
        k   == CHOOSE a \in hit : \A o \in hit : a <= o
    IN  IF hit = {}
        THEN [bestDist |-> ChainTolerance * ChainTolerance, bestIdx |-> -1,
              bestFlip |-> FALSE]
        ELSE IF WithinChainTol(distanceTo(currentEnd, segs[k].p1))
        THEN [bestDist |-> distanceTo(currentEnd, segs[k].p1), bestIdx |-> k,
              bestFlip |-> FALSE]
        ELSE [bestDist |-> distanceTo(currentEnd, segs[k].p2), bestIdx |-> k,
              bestFlip |-> TRUE]
ClosestUnused(segs, currentEnd) ==
    ClosestScan(segs, currentEnd, 1,
                [bestDist |-> ChainTolerance * ChainTolerance, bestIdx |-> -1,
                 bestFlip |-> FALSE])

\* Fault for C10: a segment taken into a chain is not marked used
MarkUsed_Forgets(segs, k) == segs
MarkUsed(segs, k) == [segs EXCEPT ![k].used = TRUE]

\* Fault for C9: a chain of any length is closed when its tip is at its start
BuildChainClosed_AnyLength(ordered) ==
    WithinChainTol(distanceTo(ordered[1].p1, ordered[Len(ordered)].p2))
\* Fault for C11: a chain of three segments or more is closed wherever its tip is
BuildChainClosed_LongEnough(ordered) == Len(ordered) >= 3
\* the closing test of buildChainFromSegment
BuildChainClosed(ordered) ==
    IF Len(ordered) < 3 THEN FALSE
    ELSE WithinChainTol(distanceTo(ordered[1].p1, ordered[Len(ordered)].p2))

\* the while loop of buildChainFromSegment
RECURSIVE BuildChainLoop(_, _, _)
BuildChainLoop(segs, ordered, currentEnd) ==
    IF Len(ordered) >= Len(segs) THEN [segs |-> segs, ordered |-> ordered]
    ELSE LET b == ClosestUnused(segs, currentEnd)
         IN  IF b.bestIdx = -1 THEN [segs |-> segs, ordered |-> ordered]
             ELSE LET seg  == segs[b.bestIdx]
                      next == IF b.bestFlip THEN Flipped(seg)
                              ELSE [object |-> seg.object, p1 |-> seg.p1,
                                    p2 |-> seg.p2, bulge |-> seg.bulge]
                  IN  BuildChainLoop(MarkUsed(segs, b.bestIdx),
                                     Append(ordered, next), next.p2)

\* buildChainFromSegment: the chain, and allSegments as it leaves them
buildChainFromSegment(allSegments, startIdx) ==
    LET segment == allSegments[startIdx]
        first   == [object |-> segment.object, p1 |-> segment.p1,
                    p2 |-> segment.p2, bulge |-> segment.bulge]
        r       == BuildChainLoop(MarkUsed(allSegments, startIdx), <<first>>, segment.p2)
    IN  [closed |-> BuildChainClosed(r.ordered), orderedSegments |-> r.ordered,
         segs |-> r.segs]

ChainVertices(ordered) ==
    [k \in 1..Len(ordered) |->
        [x |-> ordered[k].p1.x, y |-> ordered[k].p1.y, bulge |-> ordered[k].bulge]]

\* calculateChainArea: the returned value is (i + p * (pi/2)) / 4
Abs(n) == IF n < 0 THEN 0 - n ELSE n
Sign(n) == IF n < 0 THEN -1 ELSE IF n > 0 THEN 1 ELSE 0
\* 4 * segmentArea of calculateChainArea for a chord of squared length c2 and
\* an arc of q quadrants (q in 1..3):
\*   radius^2 = c2 / (4 * sin(q*pi/4)^2), which is c2/2 for q odd, c2/4 for q = 2
\*   segmentArea = (radius^2 / 2) * (q*pi/2 - sin(q*pi/2))
SegmentArea4(c2, q) ==
    IF q = 2 THEN [i |-> 0, p |-> c2]
    ELSE [i |-> 0 - c2 * SinQ(q), p |-> c2 * q]

RECURSIVE ChainAreaSum(_, _)
ChainAreaSum(vertices, k) ==
    IF k > Len(vertices) THEN [i |-> 0, p |-> 0]
    ELSE LET v    == vertices[k]
             w    == vertices[(k % Len(vertices)) + 1]
             rest == ChainAreaSum(vertices, k + 1)
             c2   == (w.x - v.x) * (w.x - v.x) + (w.y - v.y) * (w.y - v.y)
             b    == v.bulge
             corr == IF b = 0 \/ c2 = 0 THEN [i |-> 0, p |-> 0]
                     ELSE SegmentArea4(c2, Abs(b))
         IN  [i |-> rest.i + 2 * (v.x * w.y - w.x * v.y) + Sign(b) * corr.i,
              p |-> rest.p + Sign(b) * corr.p]
calculateChainArea(vertices) ==
    IF Len(vertices) < 3 THEN [i |-> 0, p |-> 0]
    ELSE LET a == ChainAreaSum(vertices, 1)
         IN  IF IsNegative(a.i, a.p) THEN [i |-> 0 - a.i, p |-> 0 - a.p] ELSE a


\* analyzeChain: the first unused segment that continues the chain
AnalyzeNext(segments, used, currentEnd) ==
    LET cand == {k \in 1..Len(segments) :
                    /\ k \notin used
                    /\ \/ WithinChainTol(distanceTo(currentEnd, segments[k].p1))
                       \/ WithinChainTol(distanceTo(currentEnd, segments[k].p2))}
    IN  IF cand = {} THEN 0 ELSE CHOOSE k \in cand : \A j \in cand : k <= j

RECURSIVE AnalyzeLoop(_, _, _, _)
AnalyzeLoop(segments, used, ordered, currentEnd) ==
    IF Cardinality(used) >= Len(segments) THEN ordered
    ELSE LET k == AnalyzeNext(segments, used, currentEnd)
         IN  IF k = 0 THEN ordered
             ELSE LET seg  == segments[k]
                      next == IF WithinChainTol(distanceTo(currentEnd, seg.p1))
                              THEN seg ELSE Flipped(seg)
                  IN  AnalyzeLoop(segments, used \cup {k}, Append(ordered, next), next.p2)

\* the closing test of analyzeChain
AnalyzeClosed(ordered) ==
    IF Len(ordered) < 3 THEN FALSE
    ELSE WithinChainTol(distanceTo(ordered[1].p1, ordered[Len(ordered)].p2))

\* analyzeChain: ordered at the return, and the returned value
AnalyzeOrdered(objects) ==
    LET segments == ExtractAll(objects, 1)
    IN  IF Len(segments) < 2 THEN <<>>
        ELSE AnalyzeLoop(segments, {1}, <<segments[1]>>, segments[1].p2)
analyzeChain(objects) ==
    LET ordered == AnalyzeOrdered(objects)
    IN  IF AnalyzeClosed(ordered)
        THEN [closed |-> TRUE,
              orderedObjects |-> [k \in 1..Len(ordered) |-> ordered[k].object],
              vertices |-> ChainVertices(ordered)]
        ELSE [closed |-> FALSE]

(***************************************************************************)
(* WeightManager.findAllChains, one pass of the outer loop at a time       *)
(***************************************************************************)
FirstUnused(segs) ==
    LET un == {k \in 1..Len(segs) : ~segs[k].used}
    IN  IF un = {} THEN -1 ELSE CHOOSE k \in un : \A j \in un : k <= j

\* allSegments.findIndex(s => s.object === seg.object), marked used, for every
\* segment of an open chain
RECURSIVE MarkChainUsed(_, _, _)
MarkChainUsed(segs, ordered, k) ==
    IF k > Len(ordered) THEN segs
    ELSE LET hit == {j \in 1..Len(segs) : segs[j].object = ordered[k].object}
             idx == IF hit = {} THEN -1 ELSE CHOOSE j \in hit : \A o \in hit : j <= o
         IN  MarkChainUsed(IF idx # -1 THEN MarkUsed(segs, idx) ELSE segs, ordered, k + 1)

\* findAllChains(objects): the segments are extracted
CStart(objects) ==
    /\ cPc = "idle" /\ aPc = "idle"
    /\ cObjects' = objects
    /\ cSegs' = LET segs == ExtractAll(objects, 1)
                IN  [k \in 1..Len(segs) |->
                        [object |-> segs[k].object, p1 |-> segs[k].p1,
                         p2 |-> segs[k].p2, bulge |-> segs[k].bulge, used |-> FALSE]]
    /\ cPc' = "loop"
    /\ UNCHANGED <<cResults, cChain, cPasses, aObjects, aPc, aOrdered, aResult>>

\* one pass of `while (allSegments.some(s => !s.used))`
CPass ==
    /\ cPc = "loop"
    /\ FirstUnused(cSegs) # -1
    /\ cPasses <= Len(cSegs)
    /\ \E chain \in {buildChainFromSegment(cSegs, FirstUnused(cSegs))} :
           /\ cChain' = [closed |-> chain.closed, orderedSegments |-> chain.orderedSegments]
           /\ IF chain.closed THEN
                  /\ cResults' = Append(cResults,
                        [type |-> "chain",
                         objects |-> [k \in 1..Len(chain.orderedSegments) |->
                                         chain.orderedSegments[k].object],
                         vertices |-> ChainVertices(chain.orderedSegments)])
                  /\ cSegs' = chain.segs
              ELSE
                  /\ cSegs' = MarkChainUsed(chain.segs, chain.orderedSegments, 1)
                  /\ UNCHANGED cResults
    /\ cPasses' = cPasses + 1
    /\ UNCHANGED <<cObjects, cPc, aObjects, aPc, aOrdered, aResult>>

CReturn ==
    /\ cPc = "loop"
    /\ FirstUnused(cSegs) = -1
    /\ cPc' = "done"
    /\ UNCHANGED <<cObjects, cSegs, cResults, cChain, cPasses, aObjects, aPc, aOrdered, aResult>>

\* analyzeChain(objects)
CAnalyze(objects) ==
    /\ aPc = "idle" /\ cPc = "idle"
    /\ aObjects' = objects
    /\ aOrdered' = AnalyzeOrdered(objects)
    /\ aResult' = analyzeChain(objects)
    /\ aPc' = "done"
    /\ UNCHANGED <<cObjects, cPc, cSegs, cResults, cChain, cPasses>>

(***************************************************************************)
(* Objects given to findAllChains and analyzeChain                         *)
(***************************************************************************)
LineObj(x1, y1, x2, y2) ==
    [type |-> "LINE", entity |-> [startPoint |-> Pt(x1, y1), endPoint |-> Pt(x2, y2)]]
ArcObj(cx, cy, r, a1, a2) ==
    [type |-> "ARC", entity |-> [center |-> Pt(cx, cy), radius |-> r,
                                 startAngle |-> a1, endAngle |-> a2]]

\* the four sides of the unit square, in every order and every direction
UnitSides == <<LineObj(0, 0, 1, 0), LineObj(1, 0, 1, 1),
               LineObj(1, 1, 0, 1), LineObj(0, 1, 0, 0)>>
ReversedObj(o) ==
    [o EXCEPT !.entity = [startPoint |-> o.entity.endPoint, endPoint |-> o.entity.startPoint]]
UnitSquares ==
    {[k \in 1..4 |-> IF d[k] THEN ReversedObj(UnitSides[perm[k]]) ELSE UnitSides[perm[k]]] :
        perm \in {f \in [1..4 -> 1..4] : \A a, b \in 1..4 : a # b => f[a] # f[b]},
        d \in [1..4 -> BOOLEAN]}

\* sides of a triangle and of a square of side 3 (corners farther apart than
\* the tolerance), a line shorter than the tolerance, the two half circles of
\* radius 3 about the origin, a LINE without entity data
ChainObjects ==
    { LineObj(0, 0, 3, 0), LineObj(3, 0, 3, 3), LineObj(3, 3, 0, 0),
      LineObj(0, 0, 0, 3), LineObj(0, 0, 1, 0),
      ArcObj(0, 0, 3, 0, 180), ArcObj(0, 0, 3, 180, 0),
      [type |-> "LINE", entity |-> Null] }

\* a triangle with a stray line far from it, the stray line at every position
TriangleAndStray ==
    LET triangle == <<LineObj(0, 0, 3, 0), LineObj(3, 0, 3, 3), LineObj(3, 3, 0, 0)>>
    IN  {SubSeq(triangle, 1, k) \o <<LineObj(9, 9, 9, 12)>> \o SubSeq(triangle, k + 1, 3) :
            k \in 0..3}

\* two triangles far from each other: one after the other, and interleaved with
\* a side of the first drawn the other way round
TwoTriangles ==
    LET a == <<LineObj(0, 0, 3, 0), LineObj(3, 0, 3, 3), LineObj(3, 3, 0, 0)>>
        b == <<LineObj(9, 9, 12, 9), LineObj(12, 9, 12, 12), LineObj(12, 12, 9, 9)>>
    IN  { a \o b,
          <<a[1], b[1], a[2], b[2], a[3], b[3]>>,
          <<b[2], ReversedObj(a[2]), b[3], a[1], b[1], a[3]>> }

ChainInputs ==
    UnitSquares \cup TriangleAndStray \cup TwoTriangles
        \cup SeqsUpTo(ChainObjects, MaxObjects)

(***************************************************************************)
(* DXFViewerApp.extractAllLoops (src/src/app.js)                           *)
(***************************************************************************)
\* matches(p1, p2): Math.hypot(p1.x - p2.x, p1.y - p2.y) < tolerance, for the
\* default toleranceOverride of 0.0001 (tolerance^2 = 1 / TolScale)
matches(p1, p2) == LessTol(dist(p1.x, p1.y, p2.x, p2.y), 1)

\* the signed sweep of decomposeEntity for an ARC, in quadrants
DecomposeSweep(raw, isCCW) ==
    IF isCCW THEN (IF raw > 0 THEN raw ELSE IF raw % 4 = 0 THEN 4 ELSE raw % 4)
    ELSE (IF raw < 0 THEN raw ELSE (raw % 4) - 4)

\* decomposeEntity for LINE and ARC entities and for the types it answers with
\* null (kept as the empty array: extractAllLoops pushes nothing for either);
\* a bulge tan(q * pi/8) is kept as the sweep q in quadrants
decomposeEntity(ent) ==
    IF ent.type = "LINE" THEN
        <<[p1 |-> Pt(ent.x1, ent.y1), p2 |-> Pt(ent.x2, ent.y2), bulge |-> 0]>>
    ELSE IF ent.type = "ARC" THEN
        LET start == Rad(ent.startAngle)
            end   == Rad(ent.endAngle)
            isCCW == IF "counterClockwise" \in DOMAIN ent THEN ent.counterClockwise
                     ELSE IF "ccw" \in DOMAIN ent THEN ent.ccw = 1
                     ELSE TRUE
            sweep == DecomposeSweep(end - start, isCCW)
        IN  <<[p1 |-> Pt(ent.cx + ent.radius * CosQ(start), ent.cy + ent.radius * SinQ(start)),
               p2 |-> Pt(ent.cx + ent.radius * CosQ(end), ent.cy + ent.radius * SinQ(end)),
               bulge |-> sweep, radius |-> ent.radius, theta |-> sweep]>>
    ELSE <<>>

\* Step A of extractAllLoops: the segments of the entities, in order
RECURSIVE DecomposeAll(_, _)
DecomposeAll(entities, k) ==
    IF k > Len(entities) THEN <<>>
    ELSE decomposeEntity(entities[k]) \o DecomposeAll(entities, k + 1)

\* Fault for C8: a duplicate drawn the same way round is taken for a bridge
IsReverseOf_SameWay(s1, s2) == matches(s1.p1, s2.p1) /\ matches(s1.p2, s2.p2)
\* the test of the pruning pass: s2 is the reverse of s1
IsReverseOf(s1, s2) == matches(s1.p1, s2.p2) /\ matches(s1.p2, s2.p1)

\* Step A.1 of extractAllLoops: the pruning pass, from index i on
RECURSIVE PruneBridges(_, _, _)
PruneBridges(segments, used, i) ==
    IF i > Len(segments) THEN used
    ELSE IF i \in used THEN PruneBridges(segments, used, i + 1)
    ELSE LET hit == {j \in (i + 1)..Len(segments) :
                        j \notin used /\ IsReverseOf(segments[i], segments[j])}
         IN  IF hit = {} THEN PruneBridges(segments, used, i + 1)
             ELSE PruneBridges(segments,
                               used \cup {i, CHOOSE j \in hit : \A o \in hit : j <= o},
                               i + 1)

\* the segment pushed when the tip matches seg.p2
FlippedSegment(seg) ==
    IF "theta" \in DOMAIN seg
    THEN [p1 |-> seg.p2, p2 |-> seg.p1, bulge |-> 0 - seg.bulge,
          radius |-> seg.radius, theta |-> 0 - seg.theta]
    ELSE [p1 |-> seg.p2, p2 |-> seg.p1, bulge |-> 0 - seg.bulge]

\* the while (true) loop of the extraction, for the loop begun at a segment
RECURSIVE GrowLoop(_, _, _, _, _)
GrowLoop(segments, used, ordered, currentLoopIndices, currentTip) ==
    LET hit == {j \in 1..Len(segments) :
                    /\ j \notin used
                    /\ j \notin Range(currentLoopIndices)
                    /\ \/ matches(currentTip, segments[j].p1)
                       \/ matches(currentTip, segments[j].p2)}
    IN  IF hit = {} THEN
            [loopClosed |-> FALSE, ordered |-> ordered,
             currentLoopIndices |-> currentLoopIndices]
        ELSE
            LET j    == CHOOSE a \in hit : \A o \in hit : a <= o
                seg  == segments[j]
                next == IF matches(currentTip, seg.p1) THEN seg ELSE FlippedSegment(seg)
            IN  IF matches(next.p2, ordered[1].p1) THEN
                    [loopClosed |-> TRUE, ordered |-> Append(ordered, next),
                     currentLoopIndices |-> Append(currentLoopIndices, j)]
                ELSE GrowLoop(segments, used, Append(ordered, next),
                              Append(currentLoopIndices, j), next.p2)

\* the vertices pushed for a closed loop
LoopVertices(ordered) ==
    [k \in 1..Len(ordered) |->
        IF "theta" \in DOMAIN ordered[k]
        THEN [x |-> ordered[k].p1.x, y |-> ordered[k].p1.y, bulge |-> ordered[k].bulge,
              radius |-> ordered[k].radius, theta |-> ordered[k].theta]
        ELSE [x |-> ordered[k].p1.x, y |-> ordered[k].p1.y, bulge |-> ordered[k].bulge]]

\* extractAllLoops(entities): Step A
LStart(entities) ==
    /\ lPc = "idle"
    /\ lEntities' = entities
    /\ lSegments' = DecomposeAll(entities, 1)
    /\ lPc' = IF DecomposeAll(entities, 1) = <<>> THEN "done" ELSE "prune"
    /\ UNCHANGED <<lUsed, lLoops, lLoopIndices, lI>>

\* Step A.1: the bridge pairs are marked used
LPrune ==
    /\ lPc = "prune"
    /\ lUsed' = PruneBridges(lSegments, {}, 1)
    /\ lPc' = "extract"
    /\ lI' = 1
    /\ UNCHANGED <<lEntities, lSegments, lLoops, lLoopIndices>>

\* one iteration of the extraction loop `for (let i = 0; ...)`
LExtract ==
    /\ lPc = "extract"
    /\ lI <= Len(lSegments)
    /\ IF lI \in lUsed THEN UNCHANGED <<lUsed, lLoops, lLoopIndices>>
       ELSE \E r \in {GrowLoop(lSegments, lUsed, <<lSegments[lI]>>, <<lI>>,
                               lSegments[lI].p2)} :
              IF r.loopClosed THEN
                  /\ lLoops' = Append(lLoops, LoopVertices(r.ordered))
                  /\ lLoopIndices' = Append(lLoopIndices, r.currentLoopIndices)
                  /\ lUsed' = lUsed \cup Range(r.currentLoopIndices)
              ELSE UNCHANGED <<lUsed, lLoops, lLoopIndices>>
    /\ lI' = lI + 1
    /\ UNCHANGED <<lEntities, lSegments, lPc>>

LReturn ==
    /\ lPc = "extract"
    /\ lI > Len(lSegments)
    /\ lPc' = "done"
    /\ UNCHANGED <<lEntities, lSegments, lUsed, lLoops, lLoopIndices, lI>>

(***************************************************************************)
(* Entities given to extractAllLoops                                       *)
(***************************************************************************)
LineEnt(x1, y1, x2, y2) == [type |-> "LINE", x1 |-> x1, y1 |-> y1, x2 |-> x2, y2 |-> y2]
ArcEnt(cx, cy, r, a1, a2) ==
    [type |-> "ARC", cx |-> cx, cy |-> cy, radius |-> r, startAngle |-> a1, endAngle |-> a2]
ReversedEnt(e) == LineEnt(e.x2, e.y2, e.x1, e.y1)

\* an outer square, an inner triangle, and the bridge between a corner of the
\* square and a corner of the triangle, drawn there and back
SquareSides == <<LineEnt(0, 0, 4, 0), LineEnt(4, 0, 4, 4),
                 LineEnt(4, 4, 0, 4), LineEnt(0, 4, 0, 0)>>
TriangleSides == <<LineEnt(1, 1, 3, 1), LineEnt(3, 1, 1, 3), LineEnt(1, 3, 1, 1)>>
BridgeThere == LineEnt(0, 0, 1, 1)
BridgeBack == LineEnt(1, 1, 0, 0)
SquareCorners == {Pt(0, 0), Pt(4, 0), Pt(4, 4), Pt(0, 4)}
TriangleCorners == {Pt(1, 1), Pt(3, 1), Pt(1, 3)}

InsertAt(s, pos, x) == SubSeq(s, 1, pos) \o <<x>> \o SubSeq(s, pos + 1, Len(s))

\* the seven sides: square first, triangle first, and interleaved
SideOrders ==
    { SquareSides \o TriangleSides,
      TriangleSides \o SquareSides,
      <<TriangleSides[1], SquareSides[3], TriangleSides[3], SquareSides[1],
        SquareSides[4], TriangleSides[2], SquareSides[2]>> }

\* the sides with at most MaxReversed of them drawn the other way round
WithReversed(sides) ==
    {[k \in 1..Len(sides) |-> IF k \in R THEN ReversedEnt(sides[k]) ELSE sides[k]] :
        R \in {S \in SUBSET (1..Len(sides)) : Cardinality(S) <= MaxReversed}}

\* the two bridge segments put anywhere among the sides, either one first
BridgedDrawings ==
    UNION { { InsertAt(InsertAt(sides, a, b[1]), c, b[2]) :
                a \in {0, 3, 7}, c \in 0..8,
                b \in {<<BridgeThere, BridgeBack>>, <<BridgeBack, BridgeThere>>} } :
            sides \in UNION {WithReversed(o) : o \in SideOrders} }

\* short drawings of lines, half circles and an entity without segments
LoopEntities ==
    { LineEnt(1, 1, 3, 1), LineEnt(3, 1, 1, 3), LineEnt(1, 3, 1, 1), LineEnt(1, 1, 1, 3),
      ArcEnt(2, 1, 1, 180, 0), ArcEnt(2, 1, 1, 0, 180),
      [type |-> "TEXT"] }

LoopInputs == BridgedDrawings \cup SeqsUpTo(LoopEntities, MaxEntities)

(***************************************************************************)
(* DXFViewerApp.decomposeComplexLoops (src/src/app.js)                     *)
(* Coordinates of this part are hundredths of a world unit, so that the    *)
(* tolerance 0.15 is 15.                                                   *)
(***************************************************************************)
DecomposeTolerance == 15
\* matches(p1, p2) of decomposeComplexLoops: Math.hypot(..) < tolerance
decomposeMatches(p1, p2) ==
    dist(p1.x, p1.y, p2.x, p2.y) < DecomposeTolerance * DecomposeTolerance

\* the pinch points (i, j), i < j, of the nested scan; the scan stops at the
\* first one: the least i, and the least j for that i
PinchPoints(currentLoop) ==
    {ij \in (1..Len(currentLoop)) \X (1..Len(currentLoop)) :
        ij[1] < ij[2] /\ decomposeMatches(currentLoop[ij[1]], currentLoop[ij[2]])}

\* the while (foundSplit) loop, and the push of the remaining loop
RECURSIVE DecomposeSplit(_, _)
DecomposeSplit(currentLoop, simpleLoops) ==
    LET found == PinchPoints(currentLoop)
    IN  IF found = {} THEN
            IF Len(currentLoop) >= 3 THEN Append(simpleLoops, currentLoop)
            ELSE simpleLoops
        ELSE
            LET ij == CHOOSE a \in found :
                          \A b \in found : a[1] < b[1] \/ (a[1] = b[1] /\ a[2] <= b[2])
                i  == ij[1]
                j  == ij[2]
            IN  DecomposeSplit(SubSeq(currentLoop, 1, i - 1)
                                   \o SubSeq(currentLoop, j, Len(currentLoop)),
                               Append(simpleLoops, SubSeq(currentLoop, i, j - 1)))

\* decomposeComplexLoops(vertices), for an array argument
decomposeComplexLoops(vertices) ==
    IF Len(vertices) < 3 THEN <<>> ELSE DecomposeSplit(vertices, <<>>)

\* a call of decomposeComplexLoops; the method keeps no state, so one call is
\* followed per behaviour
DCall(vertices) ==
    /\ dPc = "idle"
    /\ dVertices' = vertices
    /\ dResult' = decomposeComplexLoops(vertices)
    /\ dPc' = "done"

\* vertices given to decomposeComplexLoops: two corners and three points on the
\* x axis at 0, 0.10 and 0.15, so that pairs lie inside, on and outside the
\* tolerance
DecomposePoints ==
    { [x |-> 0, y |-> 0, bulge |-> 0], [x |-> 10, y |-> 0, bulge |-> 0],
      [x |-> 15, y |-> 0, bulge |-> 0], [x |-> 100, y |-> 0, bulge |-> 0],
      [x |-> 100, y |-> 100, bulge |-> 0] }
DecomposeInputs == SeqsUpTo(DecomposePoints, MaxLoopVerts)

(***************************************************************************)
(* DXFViewerApp.findConnectedLoops (src/src/app.js)                        *)
(* Coordinates of this part are hundredths of a world unit, so that the    *)
(* tolerance 0.05 is 5.  An entity is named by its index in the argument.  *)
(***************************************************************************)
ConnectTolerance == 5

\* eps(ent): the end points of the segments of the entity
eps(ent) ==
    LET segs == decomposeEntity(ent)
    IN  UNION {{segs[k].p1, segs[k].p2} : k \in 1..Len(segs)}

\* connected(e1, e2): some end points are closer than the tolerance
connected(e1, e2) ==
    \E p1 \in eps(e1), p2 \in eps(e2) :
        dist(p1.x, p1.y, p2.x, p2.y) < ConnectTolerance * ConnectTolerance

\* the elements of a set of indices, in increasing order
RECURSIVE Ascending(_)
Ascending(S) ==
    IF S = {} THEN <<>>
    ELSE LET k == CHOOSE a \in S : \A b \in S : a <= b
         IN  <<k>> \o Ascending(S \ {k})

\* Fault for C13: the adjacency list records a pair on the side of its first
\* entity only
Adjacent_ForwardOnly(entityList, k) ==
    Ascending({j \in (k + 1)..Len(entityList) : connected(entityList[k], entityList[j])})
\* adj.get(entityList[k]) after the double loop over i < j: the pairs are pushed
\* on both sides, in the order of the other index
Adjacent(entityList, k) ==
    Ascending({j \in 1..Len(entityList) :
                  j # k /\ connected(entityList[MinOf(j, k)], entityList[MaxOf(j, k)])})

\* while (stack.length > 0)
RECURSIVE Traverse(_, _, _, _)
Traverse(entityList, stack, visited, component) ==
    IF stack = <<>> THEN [component |-> component, visited |-> visited]
    ELSE LET curr      == stack[Len(stack)]
             neighbors == Adjacent(entityList, curr)
             fresh     == SelectSeq(neighbors, LAMBDA n : n \notin visited)
         IN  Traverse(entityList, SubSeq(stack, 1, Len(stack) - 1) \o fresh,
                      visited \cup Range(fresh), Append(component, curr))

\* for (const ent of entityList)
RECURSIVE TraverseAll(_, _, _, _)
TraverseAll(entityList, ent, visited, components) ==
    IF ent > Len(entityList) THEN components
    ELSE IF ent \in visited THEN TraverseAll(entityList, ent + 1, visited, components)
    ELSE LET r == Traverse(entityList, <<ent>>, visited \cup {ent}, <<>>)
         IN  TraverseAll(entityList, ent + 1, r.visited, Append(components, r.component))

findConnectedLoops(entities) ==
    IF Len(entities) = 0 THEN <<>>
    ELSE IF Len(entities) = 1 THEN <<<<1>>>>
    ELSE TraverseAll(entities, 1, {}, <<>>)

\* a call of findConnectedLoops; the method keeps no state, so one call is
\* followed per behaviour
FCall(entities) ==
    /\ fPc = "idle"
    /\ fEntities' = entities
    /\ fResult' = findConnectedLoops(entities)
    /\ fPc' = "done"

\* entities of a selection: three lines and a half circle that touch, a line
\* whose end is 0.04 from the end of another, a line whose end is exactly 0.05
\* from it, and an entity without segments
SelectableEntities ==
    { LineEnt(0, 0, 100, 0), LineEnt(100, 0, 100, 100), LineEnt(100, 104, 0, 100),
      LineEnt(0, 105, 0, 200), ArcEnt(50, 0, 50, 0, 180), [type |-> "TEXT"] }
Selections == SeqsUpTo(SelectableEntities, MaxSelected)

(***************************************************************************)
(* DXFViewerApp.calculateArea (src/src/app.js)                             *)
(* Coordinates of this part are hundredths of a world unit.  An area is    *)
(* kept as the pair (i, p) that stands for (i + p * (pi/2)) / 4 square     *)
(* hundredths, so the threshold 0.001 is the pair (40, 0).                 *)
(***************************************************************************)
AreaMinus(a, b) == [i |-> a.i - b.i, p |-> a.p - b.p]
AreaLess(a, b) == IsNegative(a.i - b.i, a.p - b.p)      \* a < b

\* the loop of calculateGeometricArea: 2 * area2, from vertex k on.  The radius
\* of DXFParser.bulgeToArc enters through SegmentArea4; bulgeToArc answers null
\* for a chord of length 0
RECURSIVE GeometricAreaSum(_, _)
GeometricAreaSum(vertices, k) ==
    IF k > Len(vertices) THEN [i |-> 0, p |-> 0]
    ELSE LET p1    == vertices[k]
             p2    == vertices[(k % Len(vertices)) + 1]
             x1    == p1.x - vertices[1].x
             y1    == p1.y - vertices[1].y
             x2    == p2.x - vertices[1].x
             y2    == p2.y - vertices[1].y
             c2    == dist(p1.x, p1.y, p2.x, p2.y)
             bulge == p1.bulge
             arc   == IF bulge = 0 \/ c2 = 0 THEN [i |-> 0, p |-> 0]
                      ELSE SegmentArea4(c2, Abs(bulge))
             rest  == GeometricAreaSum(vertices, k + 1)
         IN  [i |-> rest.i + 2 * (x1 * y2 - x2 * y1) + Sign(bulge) * arc.i,
              p |-> rest.p + Sign(bulge) * arc.p]

\* Fault for C25: the signed area is returned
calculateGeometricArea_Signed(vertices) ==
    IF Len(vertices) < 3 THEN [i |-> 0, p |-> 0]
    ELSE GeometricAreaSum(vertices, 1)

\* calculateGeometricArea(vertices): Math.abs(area2 / 2)
calculateGeometricArea(vertices) ==
    IF Len(vertices) < 3 THEN [i |-> 0, p |-> 0]
    ELSE LET a == GeometricAreaSum(vertices, 1)
         IN  IF IsNegative(a.i, a.p) THEN [i |-> 0 - a.i, p |-> 0 - a.p] ELSE a

\* the extraction loop of extractAllLoops, from segment i on
RECURSIVE ExtractLoops(_, _, _, _)
ExtractLoops(segments, used, i, loops) ==
    IF i > Len(segments) THEN loops
    ELSE IF i \in used THEN ExtractLoops(segments, used, i + 1, loops)
    ELSE LET r == GrowLoop(segments, used, <<segments[i]>>, <<i>>, segments[i].p2)
         IN  IF r.loopClosed
             THEN ExtractLoops(segments, used \cup Range(r.currentLoopIndices), i + 1,
                               Append(loops, LoopVertices(r.ordered)))
             ELSE ExtractLoops(segments, used, i + 1, loops)

\* extractAllLoops(entities, 0.01): on the grid of hundredths two points are
\* closer than 0.01 exactly when they are equal, which is what matches decides
extractAllLoops(entities) ==
    LET segments == DecomposeAll(entities, 1)
    IN  IF segments = <<>> THEN <<>>
        ELSE ExtractLoops(segments, PruneBridges(segments, {}, 1), 1, <<>>)

\* steps 2, 3 and 3b of calculateArea: allLoops, from component n on
RECURSIVE AllLoops(_, _, _)
AllLoops(entities, components, n) ==
    IF n > Len(components) THEN <<>>
    ELSE LET compEntities == [k \in 1..Len(components[n]) |-> entities[components[n][k]]]
             rawLoops     == extractAllLoops(compEntities)
             simple[m \in 0..Len(rawLoops)] ==
                 IF m = 0 THEN <<>>
                 ELSE simple[m - 1] \o decomposeComplexLoops(rawLoops[m])
         IN  simple[Len(rawLoops)] \o AllLoops(entities, components, n + 1)

MinLoopArea == 40
\* step 4 of calculateArea: the areas above 0.001, in the order of allLoops
RECURSIVE LoopAreas(_, _)
LoopAreas(allLoops, n) ==
    IF n > Len(allLoops) THEN <<>>
    ELSE LET a == calculateGeometricArea(allLoops[n])
         IN  IF Len(allLoops[n]) >= 3 /\ AreaLess([i |-> MinLoopArea, p |-> 0], a)
             THEN <<a>> \o LoopAreas(allLoops, n + 1)
             ELSE LoopAreas(allLoops, n + 1)

\* Fault for C14: the areas are sorted ascending
SortDescending_Ascending(areas) ==
    LET sorted[n \in 0..Len(areas)] ==
            IF n = 0 THEN <<>>
            ELSE LET before == SelectSeq(sorted[n - 1], LAMBDA b : ~AreaLess(areas[n], b))
                     behind == SelectSeq(sorted[n - 1], LAMBDA b : AreaLess(areas[n], b))
                 IN  before \o <<areas[n]>> \o behind
    IN  sorted[Len(areas)]
\* areas.sort((a, b) => b - a)
SortDescending(areas) ==
    LET sorted[n \in 0..Len(areas)] ==
            IF n = 0 THEN <<>>
            ELSE LET before == SelectSeq(sorted[n - 1], LAMBDA b : ~AreaLess(b, areas[n]))
                     behind == SelectSeq(sorted[n - 1], LAMBDA b : AreaLess(b, areas[n]))
                 IN  before \o <<areas[n]>> \o behind
    IN  sorted[Len(areas)]

\* holesArea: the sum of areas[k..]
RECURSIVE HolesArea(_, _)
HolesArea(areas, k) ==
    IF k > Len(areas) THEN [i |-> 0, p |-> 0]
    ELSE LET rest == HolesArea(areas, k + 1)
         IN  [i |-> areas[k].i + rest.i, p |-> areas[k].p + rest.p]

\* calculateArea(entities), for an array argument.  The number returned for a
\* single CIRCLE is kept as [area |-> pi * r^2]; the details string is kept as
\* the two numbers it prints
calculateArea(entities) ==
    IF Len(entities) = 0 THEN Null
    ELSE IF Len(entities) = 1 /\ entities[1].type = "CIRCLE"
    THEN [area |-> [i |-> 0, p |-> 8 * entities[1].radius * entities[1].radius]]
    ELSE LET components == findConnectedLoops(entities)
             allLoops   == AllLoops(entities, components, 1)
             areas      == SortDescending(LoopAreas(allLoops, 1))
         IN  IF components = <<>> \/ allLoops = <<>> \/ areas = <<>> THEN Null
             ELSE IF Len(areas) = 1 THEN [area |-> areas[1], count |-> 1]
             ELSE [area |-> AreaMinus(areas[1], HolesArea(areas, 2)),
                   count |-> Len(areas),
                   details |-> [Outer |-> areas[1], Holes |-> HolesArea(areas, 2)]]

\* a call of calculateArea; the method keeps no state, so one call is followed
\* per behaviour
GCall(entities) ==
    /\ gPc = "idle"
    /\ gEntities' = entities
    /\ gResult' = calculateArea(entities)
    /\ gPc' = "done"

\* outlines: a right triangle with legs w and h at (x, y), and a quarter disc of
\* radius r about (x, y), each drawn head to tail
Triangle(x, y, w, h) ==
    <<LineEnt(x, y, x + w, y), LineEnt(x + w, y, x, y + h), LineEnt(x, y + h, x, y)>>
QuarterDisc(x, y, r) ==
    <<LineEnt(x, y, x + r, y), ArcEnt(x, y, r, 0, 90), LineEnt(x, y + r, x, y)>>

\* a large triangle; a triangle inside it; two triangles outside it that
\* together are larger; a triangle that touches its corner; triangles of area
\* 0.0008 and of area 0.001; a quarter disc; a circle
Outlines ==
    { Triangle(0, 0, 100, 100), Triangle(10, 10, 20, 20),
      Triangle(300, 0, 60, 60), Triangle(300, 100, 90, 90),
      Triangle(100, 0, 30, 30), Triangle(500, 0, 4, 4), Triangle(500, 50, 4, 5),
      QuarterDisc(600, 0, 20), <<[type |-> "CIRCLE", cx |-> 0, cy |-> 500, radius |-> 10]>> }

\* the entities of the outlines, one outline after the other
RECURSIVE Flatten(_)
Flatten(s) == IF s = <<>> THEN <<>> ELSE s[1] \o Flatten(Tail(s))
AreaSelections == {Flatten(s) : s \in SeqsUpTo(Outlines, MaxShapes)}

(***************************************************************************)
(* OSNAPSystem (src/src/osnap.js)                                          *)
(* Coordinates are world units.  Screen distances are kept squared.  The   *)
(* drawings of the model hold LINE, CIRCLE, POINT and TEXT entities; an    *)
(* entity is named in a snap by its index in dxfData.entities.             *)
(***************************************************************************)
SnapTolerance == 15

\* the exact square root; the cursor positions of the model lie at whole
\* distances from the centre of the circle
Sqrt(n) == CHOOSE r \in 0..n : r * r = n

nearestPointOnLine(point, lineStart, lineEnd) ==
    LET dx            == lineEnd.x - lineStart.x
        dy            == lineEnd.y - lineStart.y
        lengthSquared == dx * dx + dy * dy
        dot           == (point.x - lineStart.x) * dx + (point.y - lineStart.y) * dy
        clamped       == MaxOf(0, MinOf(lengthSquared, dot))    \* t * lengthSquared
    IN  IF lengthSquared = 0 THEN lineStart
        ELSE Pt(lineStart.x + (clamped * dx) \div lengthSquared,
                lineStart.y + (clamped * dy) \div lengthSquared)

\* perpendicularPointOnInfiniteLine: t is kept as the flag t < 0 || t > 1
perpendicularPointOnInfiniteLine(point, lineStart, lineEnd) ==
    LET dx            == lineEnd.x - lineStart.x
        dy            == lineEnd.y - lineStart.y
        lengthSquared == dx * dx + dy * dy
        dot           == (point.x - lineStart.x) * dx + (point.y - lineStart.y) * dy
    IN  IF lengthSquared = 0 THEN Null
        ELSE [x |-> lineStart.x + (dot * dx) \div lengthSquared,
              y |-> lineStart.y + (dot * dy) \div lengthSquared,
              outside |-> dot < 0 \/ dot > lengthSquared]

\* lineLineIntersection: no method of the class calls it
lineLineIntersection(l1p1, l1p2, l2p1, l2p2) ==
    LET x1 == l1p1.x  y1 == l1p1.y
        x2 == l1p2.x  y2 == l1p2.y
        x3 == l2p1.x  y3 == l2p1.y
        x4 == l2p2.x  y4 == l2p2.y
        denom == (x1 - x2) * (y3 - y4) - (y1 - y2) * (x3 - x4)
        tn    == (x1 - x3) * (y3 - y4) - (y1 - y3) * (x3 - x4)          \* t * denom
        un    == 0 - ((x1 - x2) * (y1 - y3) - (y1 - y2) * (x1 - x3))    \* u * denom
        In01(n) == IF denom > 0 THEN 0 <= n /\ n <= denom ELSE denom <= n /\ n <= 0
    IN  IF denom = 0 THEN Null
        ELSE IF In01(tn) /\ In01(un)
        THEN Pt(x1 + (tn * (x2 - x1)) \div denom, y1 + (tn * (y2 - y1)) \div denom)
        ELSE Null

getLineSnaps(snapModes, entities, k, cursorPos, referencePoint) ==
    LET entity == entities[k]
        p1     == Pt(entity.x1, entity.y1)
        p2     == Pt(entity.x2, entity.y2)
        perp   == IF referencePoint = Null THEN Null
                  ELSE perpendicularPointOnInfiniteLine(referencePoint, p1, p2)
    IN  (IF snapModes.endpoint
         THEN <<[type |-> "endpoint", point |-> p1, entity |-> k],
                [type |-> "endpoint", point |-> p2, entity |-> k]>>
         ELSE <<>>)
        \o (IF snapModes.midpoint
            THEN <<[type |-> "midpoint",
                    point |-> Pt((entity.x1 + entity.x2) \div 2, (entity.y1 + entity.y2) \div 2),
                    entity |-> k]>>
            ELSE <<>>)
        \o (IF snapModes.perpendicular /\ referencePoint # Null /\ perp # Null
            THEN <<[type |-> "perpendicular", point |-> Pt(perp.x, perp.y), entity |-> k,
                    isProjection |-> perp.outside]>>
            ELSE <<>>)
        \o (IF snapModes.nearest
            THEN <<[type |-> "nearest", point |-> nearestPointOnLine(cursorPos, p1, p2),
                    entity |-> k]>>
            ELSE <<>>)

getCircleSnaps(snapModes, entities, k, cursorPos) ==
    LET entity == entities[k]
        dx     == cursorPos.x - entity.cx
        dy     == cursorPos.y - entity.cy
        d      == Sqrt(dx * dx + dy * dy)
    IN  (IF snapModes.center
         THEN <<[type |-> "center", point |-> Pt(entity.cx, entity.cy), entity |-> k]>>
         ELSE <<>>)
        \o (IF snapModes.quadrant
            THEN <<[type |-> "quadrant", point |-> Pt(entity.cx + entity.radius, entity.cy),
                    entity |-> k],
                   [type |-> "quadrant", point |-> Pt(entity.cx, entity.cy + entity.radius),
                    entity |-> k],
                   [type |-> "quadrant", point |-> Pt(entity.cx - entity.radius, entity.cy),
                    entity |-> k],
                   [type |-> "quadrant", point |-> Pt(entity.cx, entity.cy - entity.radius),
                    entity |-> k]>>
            ELSE <<>>)
        \o (IF snapModes.nearest /\ d > 0
            THEN <<[type |-> "nearest",
                    point |-> Pt(entity.cx + (dx * entity.radius) \div d,
                                 entity.cy + (dy * entity.radius) \div d),
                    entity |-> k]>>
            ELSE <<>>)

getEntitySnapPoints(snapModes, entities, k, cursorPos, referencePoint) ==
    CASE entities[k].type = "LINE" ->
             getLineSnaps(snapModes, entities, k, cursorPos, referencePoint)
      [] entities[k].type = "CIRCLE" ->
             getCircleSnaps(snapModes, entities, k, cursorPos)
      [] entities[k].type = "POINT" ->
             IF snapModes.node
             THEN <<[type |-> "node", point |-> Pt(entities[k].x, entities[k].y),
                     entity |-> k]>>
             ELSE <<>>
      [] OTHER -> <<>>

\* renderer.worldToScreen: the viewport's scale is applied and y is flipped;
\* the viewport's offset is left out, as only differences are used
worldToScreen(scale, x, y) == Pt(x * scale, 0 - y * scale)

\* dist * dist of findSnapPoint
ScreenDistSq(scale, point, worldPos) ==
    LET screenPos    == worldToScreen(scale, point.x, point.y)
        cursorScreen == worldToScreen(scale, worldPos.x, worldPos.y)
    IN  dist(screenPos.x, screenPos.y, cursorScreen.x, cursorScreen.y)

specialSnaps ==
    {"endpoint", "midpoint", "center", "quadrant", "intersection", "perpendicular", "node"}

\* the snaps of the entities whose layer is not hidden, in the order of the two
\* for loops of findSnapPoint
RECURSIVE SnapsInOrder(_, _, _, _, _, _)
SnapsInOrder(snapModes, layers, entities, k, worldPos, referencePoint) ==
    IF k > Len(entities) THEN <<>>
    ELSE LET hiddenLayer == entities[k].layer \in DOMAIN layers /\ ~layers[entities[k].layer]
         IN  (IF hiddenLayer THEN <<>>
              ELSE getEntitySnapPoints(snapModes, entities, k, worldPos, referencePoint))
             \o SnapsInOrder(snapModes, layers, entities, k + 1, worldPos, referencePoint)

\* a selection that looks at the distance alone
SnapStep_DistanceOnly(best, snap, d) ==
    IF d < SnapTolerance * SnapTolerance /\ (best.closestDist = Infinity \/ d < best.closestDist)
    THEN [closestSnap |-> snap, closestDist |-> d]
    ELSE best

\* the body of the inner for loop: closestSnap and closestDist after snap, whose
\* squared screen distance is d, has been looked at
SnapStep(best, snap, d) ==
    LET take == [closestSnap |-> snap, closestDist |-> d]
    IN  IF d < SnapTolerance * SnapTolerance THEN
            IF best.closestDist = Infinity \/ d < best.closestDist THEN
                IF /\ best.closestSnap # Null
                   /\ best.closestSnap.type \in specialSnaps
                   /\ snap.type = "nearest"
                THEN best
                ELSE take
            ELSE IF /\ best.closestSnap # Null
                    /\ snap.type # "nearest"
                    /\ best.closestSnap.type = "nearest"
            THEN take
            ELSE best
        ELSE best

RECURSIVE SnapScan(_, _, _, _, _)
SnapScan(scale, snaps, worldPos, n, best) ==
    IF n > Len(snaps) THEN best
    ELSE SnapScan(scale, snaps, worldPos, n + 1,
                  SnapStep(best, snaps[n], ScreenDistSq(scale, snaps[n].point, worldPos)))

findSnapPoint(snapModes, layers, scale, worldPos, entities, referencePoint) ==
    SnapScan(scale, SnapsInOrder(snapModes, layers, entities, 1, worldPos, referencePoint),
             worldPos, 1, [closestSnap |-> Null, closestDist |-> Infinity]).closestSnap

\* the number of entities, layers and snap modes that are switched off
SwitchedOff ==
    Cardinality({j \in 1..Len(oEntities) : ~oEntities[j].visible})
        + Cardinality({name \in DOMAIN oLayers : ~oLayers[name]})
        + Cardinality({m \in DOMAIN oModes : ~oModes[m]})

\* a file is loaded and shown at some scale
OLoad(entities, scale) ==
    /\ oPc = "idle"
    /\ oEntities' = entities
    /\ oScale' = scale
    /\ oPc' = "loaded"
    /\ UNCHANGED <<oLayers, oModes, oCursor, oReference, oSnap>>

\* the mousemove handler of the canvas: renderer.snapPoint is recomputed
OMouseMove(worldPos, referencePoint) ==
    /\ oPc # "idle"
    /\ oCursor' = worldPos
    /\ oReference' = referencePoint
    /\ oSnap' = findSnapPoint(oModes, oLayers, oScale, worldPos, oEntities, referencePoint)
    /\ oPc' = "moved"
    /\ UNCHANGED <<oEntities, oLayers, oScale, oModes>>

\* the Delete key with entity k highlighted: item.visible = false
ODelete(k) ==
    /\ oPc # "idle"
    /\ k \in 1..Len(oEntities)
    /\ oEntities[k].visible
    /\ SwitchedOff < MaxSwitchedOff
    /\ oEntities' = [oEntities EXCEPT ![k].visible = FALSE]
    /\ oPc' = "edited"
    /\ UNCHANGED <<oLayers, oScale, oModes, oCursor, oReference, oSnap>>

\* a layer of the map is hidden or shown
OLayerVisible(name, visible) ==
    /\ oPc # "idle"
    /\ oLayers[name] # visible
    /\ visible \/ SwitchedOff < MaxSwitchedOff
    /\ oLayers' = [oLayers EXCEPT ![name] = visible]
    /\ oPc' = "edited"
    /\ UNCHANGED <<oEntities, oScale, oModes, oCursor, oReference, oSnap>>

toggleSnapMode(mode, enabled) ==
    /\ oPc # "idle"
    /\ mode \in DOMAIN oModes
    /\ oModes[mode] # enabled
    /\ enabled \/ SwitchedOff < MaxSwitchedOff
    /\ oModes' = [oModes EXCEPT ![mode] = enabled]
    /\ oPc' = "edited"
    /\ UNCHANGED <<oEntities, oLayers, oScale, oCursor, oReference, oSnap>>

\* the entities of the drawing: a horizontal line crossed by a vertical line
\* away from the midpoint of either, a node, a circle about the origin, a text
SnapEntities ==
    << [type |-> "LINE", layer |-> "A", visible |-> TRUE,
        x1 |-> -4, y1 |-> 8, x2 |-> 16, y2 |-> 8],
       [type |-> "LINE", layer |-> "B", visible |-> TRUE,
        x1 |-> 9, y1 |-> 2, x2 |-> 9, y2 |-> 18],
       [type |-> "POINT", layer |-> "A", visible |-> TRUE, x |-> 12, y |-> 16],
       [type |-> "CIRCLE", layer |-> "B", visible |-> TRUE, cx |-> 0, cy |-> 0, radius |-> 5],
       [type |-> "TEXT", layer |-> "A", visible |-> TRUE] >>

\* the drawing in two orders of its entities
Drawings == {SnapEntities, Reverse(SnapEntities)}

ViewScales == {1, 3}

\* cursor positions, each at a whole distance from the centre of the circle,
\* and the reference point a pending distance measurement passes
Cursors ==
    { Pt(0, 0), Pt(3, 4), Pt(6, 8), Pt(8, 6), Pt(12, 9), Pt(12, 16), Pt(30, 40) }
References == {Null, Pt(10, 20)}

\* the calls of the model: every cursor position without a reference point, and
\* two positions near the foot of the perpendicular with one
SnapCalls ==
    {<<worldPos, Null>> : worldPos \in Cursors}
        \cup {<<worldPos, referencePoint>> :
                 worldPos \in {Pt(8, 6), Pt(12, 9)}, referencePoint \in References}

(***************************************************************************)
(* MeasurementTools (src/src/measurement-tools.js), with the click,        *)
(* mousemove and Escape handlers of DXFViewerApp.  The distance and the    *)
(* angle tool are modelled.  A distance is kept as its square (valueSq,    *)
(* radiusSq); an angle is kept in sixteenths of a turn, which is exact for *)
(* the comparisons of handleMouseMove as the lines of the model run along  *)
(* multiples of 45 degrees.  Labels are left out.                          *)
(***************************************************************************)
\* this.entities and this.viewport.scale, as setEntities leaves them
MeasureEntities ==
    << [type |-> "LINE", x1 |-> 0, y1 |-> 0, x2 |-> 6, y2 |-> 0],
       [type |-> "LINE", x1 |-> 10, y1 |-> 2, x2 |-> 10, y2 |-> 8],
       [type |-> "LINE", x1 |-> 2, y1 |-> 20, x2 |-> 8, y2 |-> 20],
       [type |-> "CIRCLE", cx |-> 30, cy |-> 3, radius |-> 1] >>
MeasureScale == 5

\* pointToLineDistance(point, line) < tolerance / this.viewport.scale, compared
\* as squares
PointToLineWithin(point, line, tolerance) ==
    LET dx    == line.x2 - line.x1
        dy    == line.y2 - line.y1
        lenSq == dx * dx + dy * dy
        dot   == (point.x - line.x1) * dx + (point.y - line.y1) * dy
        cross == (point.x - line.x1) * dy - (point.y - line.y1) * dx
        scSq  == MeasureScale * MeasureScale
        tolSq == tolerance * tolerance
    IN  IF lenSq = 0 THEN scSq * dist(point.x, point.y, line.x1, line.y1) < tolSq
        ELSE IF dot <= 0 THEN scSq * dist(point.x, point.y, line.x1, line.y1) < tolSq
        ELSE IF dot >= lenSq THEN scSq * dist(point.x, point.y, line.x2, line.y2) < tolSq
        ELSE scSq * cross * cross < tolSq * lenSq

\* the first LINE entity within tolerance pixels of point, or null
findLineAtPoint(point, tolerance) ==
    LET hits == {k \in 1..Len(MeasureEntities) :
                    /\ MeasureEntities[k].type = "LINE"
                    /\ PointToLineWithin(point, MeasureEntities[k], tolerance)}
    IN  IF hits = {} THEN Null
        ELSE MeasureEntities[CHOOSE k \in hits : \A j \in hits : k <= j]

calculateIntersection(l1, l2) ==
    LET x1 == l1.x1  y1 == l1.y1  x2 == l1.x2  y2 == l1.y2
        x3 == l2.x1  y3 == l2.y1  x4 == l2.x2  y4 == l2.y2
        denom == (y4 - y3) * (x2 - x1) - (x4 - x3) * (y2 - y1)
        uaNum == (x4 - x3) * (y1 - y3) - (y4 - y3) * (x1 - x3)
    IN  IF denom = 0 THEN Null
        ELSE Pt(x1 + (uaNum * (x2 - x1)) \div denom, y1 + (uaNum * (y2 - y1)) \div denom)

\* Math.atan2(y, x) brought into [0, 2 * PI), in sixteenths of a turn: an even
\* value is a multiple of 45 degrees, an odd value lies between its neighbours
atan2(y, x) ==
    CASE x > 0 /\ y = 0 -> 0
      [] x > 0 /\ y > 0 -> (IF y < x THEN 1 ELSE IF y = x THEN 2 ELSE 3)
      [] x = 0 /\ y > 0 -> 4
      [] x < 0 /\ y > 0 -> (IF y > 0 - x THEN 5 ELSE IF y = 0 - x THEN 6 ELSE 7)
      [] x < 0 /\ y = 0 -> 8
      [] x < 0 /\ y < 0 -> (IF 0 - y < 0 - x THEN 9 ELSE IF y = x THEN 10 ELSE 11)
      [] x = 0 /\ y < 0 -> 12
      [] x > 0 /\ y < 0 -> (IF 0 - y > x THEN 13 ELSE IF 0 - y = x THEN 14 ELSE 15)
      [] OTHER -> 0

normalizeAngle(a) == a % 16

\* the four rays, sorted ascending
SortedRays(a1, a2) ==
    LET rays == { normalizeAngle(a1), normalizeAngle(a1 + 8),
                  normalizeAngle(a2), normalizeAngle(a2 + 8) }
        Nth(n) == CHOOSE r \in rays : Cardinality({q \in rays : q < r}) = n - 1
    IN  [n \in 1..4 |-> Nth(n)]

\* the preview handleMouseMove computes for the angle tool
AnglePreview(point) ==
    LET I     == mIntersection
        M     == point
        angM  == atan2(M.y - I.y, M.x - I.x)
        l1    == mPoints[1]
        l2    == mPoints[2]
        rays  == SortedRays(atan2(l1.y2 - l1.y1, l1.x2 - l1.x1),
                            atan2(l2.y2 - l2.y1, l2.x2 - l2.x1))
        sector == IF angM >= rays[1] /\ angM <= rays[2] THEN <<rays[1], rays[2]>>
                  ELSE IF angM >= rays[2] /\ angM <= rays[3] THEN <<rays[2], rays[3]>>
                  ELSE IF angM >= rays[3] /\ angM <= rays[4] THEN <<rays[3], rays[4]>>
                  ELSE <<rays[4], rays[1]>>
        diff  == IF sector[2] - sector[1] < 0 THEN sector[2] - sector[1] + 16
                 ELSE sector[2] - sector[1]
    IN  [type |-> "angle", lines |-> <<l1, l2>>, value |-> (diff * 45) \div 2,
         center |-> I, radiusSq |-> dist(M.x, M.y, I.x, I.y),
         startAngle |-> sector[1], endAngle |-> sector[2], isPreview |-> TRUE]

\* mode and value of the placement click of the distance tool
ClickMode(p1, p2, placementPoint) ==
    LET minX == MinOf(p1.x, p2.x)
        maxX == MaxOf(p1.x, p2.x)
        minY == MinOf(p1.y, p2.y)
        maxY == MaxOf(p1.y, p2.y)
        isLeftRight == placementPoint.x < minX \/ placementPoint.x > maxX
        isTopBottom == placementPoint.y < minY \/ placementPoint.y > maxY
    IN  IF isLeftRight /\ ~isTopBottom
        THEN [mode |-> "vertical", valueSq |-> (p2.y - p1.y) * (p2.y - p1.y)]
        ELSE IF isTopBottom /\ ~isLeftRight
        THEN [mode |-> "horizontal", valueSq |-> (p2.x - p1.x) * (p2.x - p1.x)]
        ELSE [mode |-> "aligned", valueSq |-> dist(p1.x, p1.y, p2.x, p2.y)]

\* a preview that measures along the axis on whose side the cursor lies
PreviewMode_SwappedAxes(p1, p2, placement) ==
    LET isLeftRight == placement.x < MinOf(p1.x, p2.x) \/ placement.x > MaxOf(p1.x, p2.x)
        isTopBottom == placement.y < MinOf(p1.y, p2.y) \/ placement.y > MaxOf(p1.y, p2.y)
    IN  IF isLeftRight /\ ~isTopBottom
        THEN [mode |-> "horizontal", valueSq |-> (p2.x - p1.x) * (p2.x - p1.x)]
        ELSE IF isTopBottom /\ ~isLeftRight
        THEN [mode |-> "vertical", valueSq |-> (p2.y - p1.y) * (p2.y - p1.y)]
        ELSE [mode |-> "aligned", valueSq |-> dist(p1.x, p1.y, p2.x, p2.y)]

\* mode and value of the placement preview of the distance tool
PreviewMode(p1, p2, placement) ==
    LET minX == MinOf(p1.x, p2.x)
        maxX == MaxOf(p1.x, p2.x)
        minY == MinOf(p1.y, p2.y)
        maxY == MaxOf(p1.y, p2.y)
        isLeftRight == placement.x < minX \/ placement.x > maxX
        isTopBottom == placement.y < minY \/ placement.y > maxY
    IN  IF isLeftRight /\ ~isTopBottom
        THEN [mode |-> "vertical", valueSq |-> (p2.y - p1.y) * (p2.y - p1.y)]
        ELSE IF isTopBottom /\ ~isLeftRight
        THEN [mode |-> "horizontal", valueSq |-> (p2.x - p1.x) * (p2.x - p1.x)]
        ELSE [mode |-> "aligned", valueSq |-> dist(p1.x, p1.y, p2.x, p2.y)]

\* this.renderer.measurements.filter(m => !m.isPreview)
WithoutPreviews(measurements) == SelectSeq(measurements, LAMBDA m : ~m.isPreview)

\* a measurement that is still marked as a preview
DistanceMeasurement_Preview(p1, p2, placementPoint) ==
    [type |-> "distance", points |-> <<p1, p2>>, placementPoint |-> placementPoint,
     valueSq |-> ClickMode(p1, p2, placementPoint).valueSq, isPreview |-> TRUE,
     smartMode |-> ClickMode(p1, p2, placementPoint).mode]

\* the measurement object of the placement click
DistanceMeasurement(p1, p2, placementPoint) ==
    [type |-> "distance", points |-> <<p1, p2>>, placementPoint |-> placementPoint,
     valueSq |-> ClickMode(p1, p2, placementPoint).valueSq, isPreview |-> FALSE,
     smartMode |-> ClickMode(p1, p2, placementPoint).mode]

handleDistanceClick(point) ==
    \/ /\ Len(mPoints) = 0
       /\ mPoints' = Append(mPoints, point)
       /\ mResult' = Null
       /\ UNCHANGED <<mActiveTool, mCurrent, mIntersection, mSmartMode, mReferenceEntity,
                      mMeasurements>>
    \/ /\ Len(mPoints) = 1
       /\ LET finalPoint == IF mSmartMode = "horizontal" THEN Pt(point.x, mPoints[1].y)
                            ELSE IF mSmartMode = "vertical" THEN Pt(mPoints[1].x, point.y)
                            ELSE point
          IN  mPoints' = Append(mPoints, finalPoint)
       /\ mResult' = Null
       /\ UNCHANGED <<mActiveTool, mCurrent, mIntersection, mSmartMode, mReferenceEntity,
                      mMeasurements>>
    \/ /\ Len(mPoints) = 2
       /\ LET measurement == DistanceMeasurement(mPoints[1], mPoints[2], point)
          IN  /\ mMeasurements' = Append(WithoutPreviews(mMeasurements), measurement)
              /\ mCurrent' = measurement
              /\ mResult' = measurement
       /\ mPoints' = <<>>
       /\ UNCHANGED <<mActiveTool, mIntersection, mSmartMode, mReferenceEntity>>

handleAngleClick(point) ==
    LET line == findLineAtPoint(point, 15)
    IN  \/ /\ Len(mPoints) = 0
           /\ IF line # Null
              THEN /\ mPoints' = Append(mPoints, line)
                   /\ mResult' = [label |-> "selectSecondLine"]
              ELSE /\ mResult' = Null
                   /\ UNCHANGED mPoints
           /\ UNCHANGED <<mActiveTool, mCurrent, mIntersection, mSmartMode, mReferenceEntity,
                          mMeasurements>>
        \/ /\ Len(mPoints) = 1
           /\ IF line # Null /\ line # mPoints[1]
              THEN LET intersectionPoint == calculateIntersection(mPoints[1], line)
                   IN  /\ mIntersection' = intersectionPoint
                       /\ IF intersectionPoint = Null
                          THEN /\ mPoints' = <<>>
                               /\ mResult' = [label |-> "Lines are parallel"]
                          ELSE /\ mPoints' = Append(mPoints, line)
                               /\ mResult' = [label |-> "placeAngle"]
              ELSE /\ mResult' = Null
                   /\ UNCHANGED <<mPoints, mIntersection>>
           /\ UNCHANGED <<mActiveTool, mCurrent, mSmartMode, mReferenceEntity, mMeasurements>>
        \/ /\ Len(mPoints) = 2
           /\ IF mCurrent = Null
              THEN \* final.isPreview = false on null: the handler throws
                   /\ mResult' = [type |-> "TypeError"]
                   /\ UNCHANGED <<mPoints, mCurrent, mIntersection, mMeasurements>>
              ELSE LET final == [mCurrent EXCEPT !.isPreview = FALSE]
                       \* the preview in renderer.measurements is the same object
                       shared == [n \in DOMAIN mMeasurements |->
                                     IF mMeasurements[n] = mCurrent THEN final
                                     ELSE mMeasurements[n]]
                   IN  /\ mMeasurements' = Append(WithoutPreviews(shared), final)
                       /\ mPoints' = <<>>
                       /\ mIntersection' = Null
                       /\ mCurrent' = Null
                       /\ mResult' = final
           /\ UNCHANGED <<mActiveTool, mSmartMode, mReferenceEntity>>

handleClick(worldPos, snapPoint) ==
    LET point == IF snapPoint # Null THEN snapPoint.point ELSE worldPos
    IN  CASE mActiveTool = "distance" -> handleDistanceClick(point)
          [] mActiveTool = "angle" -> handleAngleClick(point)

handleMouseMove(point, snapPoint) ==
    IF mActiveTool = "distance" /\ Len(mPoints) = 1 THEN
        LET p1        == mPoints[1]
            p2        == IF snapPoint # Null THEN snapPoint.point ELSE point
            hoverLine == findLineAtPoint(p2, 20)
            smartMode == IF hoverLine # Null THEN "virtual-extension" ELSE "null"
            preview   == [type |-> "distance", points |-> <<p1, p2>>,
                          placementPoint |-> point, valueSq |-> dist(p1.x, p1.y, p2.x, p2.y),
                          isPreview |-> TRUE, smartMode |-> smartMode]
        IN  /\ mSmartMode' = smartMode
            /\ mReferenceEntity' = hoverLine
            /\ mMeasurements' = Append(WithoutPreviews(mMeasurements), preview)
            /\ UNCHANGED <<mActiveTool, mPoints, mCurrent, mIntersection>>
    ELSE IF mActiveTool = "distance" /\ Len(mPoints) = 2 THEN
        LET p1      == mPoints[1]
            p2      == mPoints[2]
            m       == PreviewMode(p1, p2, point)
            preview == [type |-> "distance", points |-> <<p1, p2>>,
                        placementPoint |-> point, valueSq |-> m.valueSq,
                        isPreview |-> TRUE, smartMode |-> m.mode]
        IN  /\ mMeasurements' = Append(WithoutPreviews(mMeasurements), preview)
            /\ UNCHANGED <<mActiveTool, mPoints, mCurrent, mIntersection, mSmartMode,
                           mReferenceEntity>>
    ELSE IF mActiveTool = "angle" /\ Len(mPoints) = 2 /\ mIntersection # Null THEN
        /\ mCurrent' = AnglePreview(point)
        /\ mMeasurements' = Append(WithoutPreviews(mMeasurements), AnglePreview(point))
        /\ UNCHANGED <<mActiveTool, mPoints, mIntersection, mSmartMode, mReferenceEntity>>
    ELSE
        UNCHANGED <<mActiveTool, mPoints, mCurrent, mIntersection, mSmartMode,
                    mReferenceEntity, mMeasurements>>

\* a tool button: the active tool is switched off, another tool is activated
activateMeasurementTool(tool) ==
    /\ mActiveTool' = IF mActiveTool = tool THEN "null" ELSE tool
    /\ mPoints' = <<>>
    /\ mCurrent' = Null
    /\ mResult' = Null
    /\ mEvent' = "tool"
    /\ UNCHANGED <<mIntersection, mSmartMode, mReferenceEntity, mMeasurements, mClicks>>

\* the click handler of the canvas with a measurement tool active
MClick(worldPos, snapPoint) ==
    /\ mActiveTool # "null"
    /\ mClicks < MaxClicks
    /\ handleClick(worldPos, snapPoint)
    /\ mClicks' = mClicks + 1
    /\ mEvent' = "click"

\* the mousemove handler of the canvas with a measurement tool active
MMouseMove(worldPos, snap) ==
    /\ mActiveTool # "null"
    /\ handleMouseMove(worldPos, snap)
    /\ mResult' = Null
    /\ mEvent' = "move"
    /\ UNCHANGED mClicks

\* the Escape key with a measurement tool active
MEscape ==
    /\ mActiveTool # "null"
    /\ IF Len(mPoints) > 0
       THEN /\ mPoints' = <<>>
            /\ mMeasurements' = WithoutPreviews(mMeasurements)
            /\ UNCHANGED <<mActiveTool, mCurrent>>
       ELSE \* deactivateTool
            /\ mActiveTool' = "null"
            /\ mPoints' = <<>>
            /\ mCurrent' = Null
            /\ UNCHANGED mMeasurements
    /\ mResult' = Null
    /\ mEvent' = "escape"
    /\ UNCHANGED <<mIntersection, mSmartMode, mReferenceEntity, mClicks>>

MeasureTools == {"distance", "angle"}

\* the positions of the mouse: on each of the three lines and on empty ground
MeasurePoints == {Pt(0, 0), Pt(10, 5), Pt(5, 20), Pt(30, 3)}

\* the mouse positions with renderer.snapPoint: no snap at any position, and
\* the empty ground with a snap to the start of the first line
MeasurePointings ==
    {<<worldPos, Null>> : worldPos \in MeasurePoints}
        \cup {<<Pt(30, 3), [type |-> "endpoint", point |-> Pt(0, 0)]>>}

(***************************************************************************)
(* DXFParser (src/src/dxf-parser.js)                                       *)
(*                                                                         *)
(* A file is kept as the array `lines` that parse splits it into (trimmed  *)
(* strings); indexes count from 0 as in the source.  The parser state is a *)
(* record of the five fields the constructor creates; a Map is a sequence  *)
(* of [key, value] entries in insertion order.                             *)
(***************************************************************************)
Undefined == "undefined"                   \* lines[i] past the end of the array
NaNInt == -999                             \* parseInt / parseFloat of a non-number

At(lines, i) == IF i >= 0 /\ i < Len(lines) THEN lines[i + 1] ELSE Undefined

\* parseInt and parseFloat of the numerals that occur in the files of the model
Numerals ==
    ("0" :> 0) @@ ("1" :> 1) @@ ("2" :> 2) @@ ("3" :> 3) @@ ("4" :> 4) @@ ("5" :> 5)
    @@ ("6" :> 6) @@ ("7" :> 7) @@ ("8" :> 8) @@ ("9" :> 9) @@ ("10" :> 10)
    @@ ("11" :> 11) @@ ("20" :> 20) @@ ("21" :> 21) @@ ("30" :> 30) @@ ("31" :> 31)
    @@ ("40" :> 40) @@ ("49" :> 49) @@ ("62" :> 62) @@ ("70" :> 70) @@ ("-3" :> -3)
    @@ ("42" :> 42) @@ ("50" :> 50) @@ ("51" :> 51) @@ ("63" :> 63) @@ ("66" :> 66)
    @@ ("72" :> 72) @@ ("73" :> 73) @@ ("91" :> 91) @@ ("92" :> 92) @@ ("93" :> 93)
    @@ ("97" :> 97) @@ ("98" :> 98)
parseInt(s) == IF s \in DOMAIN Numerals THEN Numerals[s] ELSE NaNInt
parseFloat(s) == IF s \in DOMAIN Numerals THEN Numerals[s] ELSE NaNInt
\* parseFloat(value) || 0
FloatOrZero(s) == IF parseFloat(s) = NaNInt THEN 0 ELSE parseFloat(s)

parseValue(code, value) ==
    IF code >= 10 /\ code < 60 THEN parseFloat(value)
    ELSE IF code >= 60 /\ code < 80 THEN parseInt(value)
    ELSE value

\* obj[key] = value
Put(obj, key, value) == [k \in DOMAIN obj \cup {key} |-> IF k = key THEN value ELSE obj[k]]
\* map.set(key, value) and Array.from(map.values())
MapSet(map, key, value) ==
    IF \E k \in 1..Len(map) : map[k].key = key
    THEN [k \in 1..Len(map) |-> IF map[k].key = key THEN [key |-> key, value |-> value]
                                ELSE map[k]]
    ELSE Append(map, [key |-> key, value |-> value])
MapValues(map) == [k \in 1..Len(map) |-> map[k].value]

\* new DXFParser()
NewParser ==
    [entities |-> <<>>, layers |-> <<>>, linetypes |-> <<>>,
     header |-> <<>>, blocks |-> <<>>]

parseLineEntity(entity, code, value) ==
    CASE code = 10 -> Put(entity, "x1", parseFloat(value))
      [] code = 20 -> Put(entity, "y1", parseFloat(value))
      [] code = 30 -> Put(entity, "z1", FloatOrZero(value))
      [] code = 11 -> Put(entity, "x2", parseFloat(value))
      [] code = 21 -> Put(entity, "y2", parseFloat(value))
      [] code = 31 -> Put(entity, "z2", FloatOrZero(value))
      [] OTHER -> entity

parseCircleEntity(entity, code, value) ==
    CASE code = 10 -> Put(entity, "cx", parseFloat(value))
      [] code = 20 -> Put(entity, "cy", parseFloat(value))
      [] code = 30 -> Put(entity, "cz", FloatOrZero(value))
      [] code = 40 -> Put(entity, "radius", parseFloat(value))
      [] OTHER -> entity

parsePointEntity(entity, code, value) ==
    CASE code = 10 -> Put(entity, "x", parseFloat(value))
      [] code = 20 -> Put(entity, "y", parseFloat(value))
      [] code = 30 -> Put(entity, "z", FloatOrZero(value))
      [] OTHER -> entity

\* a POLYLINE group; the vertex array exists from the first group on
parsePolylineEntity_NoVertices(entity, code, value) ==
    CASE code = 66 -> Put(entity, "verticesFollow", parseInt(value))
      [] code = 70 -> Put(entity, "flags", parseInt(value))
      [] OTHER     -> entity

parsePolylineEntity(entity, code, value) ==
    LET e == IF "vertices" \in DOMAIN entity THEN entity ELSE Put(entity, "vertices", <<>>)
    IN  CASE code = 66 -> Put(e, "verticesFollow", parseInt(value))
          [] code = 70 -> Put(e, "flags", parseInt(value))
          [] OTHER     -> e

\* the switch of the vertex loop of parsePolylineVertices, for one group
VertexGroup_BulgeAsY(vertex, vCode, vValue) ==
    CASE vCode = 10 -> [vertex EXCEPT !.x = parseFloat(vValue)]
      [] vCode = 20 -> [vertex EXCEPT !.y = parseFloat(vValue)]
      [] vCode = 42 -> [vertex EXCEPT !.y = parseFloat(vValue)]
      [] OTHER      -> vertex

VertexGroup(vertex, vCode, vValue) ==
    CASE vCode = 10 -> [vertex EXCEPT !.x = parseFloat(vValue)]
      [] vCode = 20 -> [vertex EXCEPT !.y = parseFloat(vValue)]
      [] vCode = 42 -> [vertex EXCEPT !.bulge = parseFloat(vValue)]
      [] OTHER      -> vertex

\* the inner while loop of parsePolylineVertices: one VERTEX record
RECURSIVE ParseVertexLoop(_, _, _)
ParseVertexLoop(lines, i, vertex) ==
    IF i >= Len(lines) THEN [i |-> i, vertex |-> vertex]
    ELSE LET vCode  == parseInt(At(lines, i))
             vValue == At(lines, i + 1)
         IN  IF vCode = 0 THEN [i |-> i, vertex |-> vertex]
             ELSE ParseVertexLoop(lines, i + 2, VertexGroup(vertex, vCode, vValue))

\* parsePolylineVertices answers [i |-> the index returned, entity |-> the
\* entity with the vertices pushed]; entity.vertices.push on an entity that
\* has no vertex array throws a TypeError, kept as the field `thrown`
RECURSIVE parsePolylineVertices(_, _, _)
parsePolylineVertices(lines, i, entity) ==
    IF i >= Len(lines) THEN [i |-> i, entity |-> entity]
    ELSE LET code  == parseInt(At(lines, i))
             value == At(lines, i + 1)
         IN  IF code = 0 THEN
                 IF value = "VERTEX" THEN
                     LET r == ParseVertexLoop(lines, i + 2, [x |-> 0, y |-> 0, bulge |-> 0])
                     IN  IF "vertices" \notin DOMAIN entity
                         THEN [i |-> r.i, entity |-> Put(entity, "thrown", "TypeError")]
                         ELSE parsePolylineVertices(lines, r.i,
                                  [entity EXCEPT !.vertices = Append(@, r.vertex)])
                 ELSE IF value = "SEQEND" THEN [i |-> i + 2, entity |-> entity]
                 ELSE [i |-> i, entity |-> entity]
             ELSE parsePolylineVertices(lines, i + 2, entity)

\* parseHatchEntity.  entity._loopState.currentLoop is kept as the index of the
\* loop in entity.loops, 0 for null, and currentEdge as [loop, edge], the
\* indexes of the edge object in entity.loops[loop].edges, Null for null.
NewLoopState ==
    [currentLoop |-> 0, currentEdge |-> Null, isPolyline |-> FALSE,
     hasBulges |-> FALSE, isClosed |-> FALSE,
     debug |-> [expectedLoops |-> 0, totalLoops |-> 0, edgeCounts |-> <<>>, raw |-> <<>>]]

\* (flags & 2) === 2
PolylineFlag(flags) == flags # NaNInt /\ (flags \div 2) % 2 = 1

\* loop.itemCount >= loop.expectedItems
EdgeLimitReached_OneMore(loop) ==
    loop.expectedItems # NaNInt /\ loop.itemCount > loop.expectedItems

EdgeLimitReached(loop) ==
    loop.expectedItems # NaNInt /\ loop.itemCount >= loop.expectedItems

\* codes 97 and 98
EndGeometry_KeepLoop(state) == [state EXCEPT !.currentEdge = Null]

EndGeometry(state) ==
    [state EXCEPT !.currentEdge = Null, !.currentLoop = 0, !.isPolyline = FALSE]

\* e.<field> = v on the current edge
SetEdge(entity, field, v) ==
    LET c == entity._loopState.currentEdge
    IN  [entity EXCEPT !.loops[c.loop].edges[c.edge] = Put(@, field, v)]

\* the type of the current edge, 0 when there is none
EdgeType(entity) ==
    LET c == entity._loopState.currentEdge
    IN  IF c = Null THEN 0 ELSE entity.loops[c.loop].edges[c.edge].type

parseHatchEntity(entity0, code, value) ==
    LET e1 == IF "loops" \in DOMAIN entity0 THEN entity0 ELSE Put(entity0, "loops", <<>>)
        e2 == IF "_loopState" \in DOMAIN e1 THEN e1 ELSE Put(e1, "_loopState", NewLoopState)
        entity == [e2 EXCEPT !._loopState.debug.raw =
                                 Append(@, [code |-> code, value |-> value])]
        st == entity._loopState
        cl == st.currentLoop
        inPolyline == st.isPolyline /\ cl # 0
        verts == entity.loops[cl].vertices
    IN  CASE code = 70 -> Put(entity, "solidFill", parseInt(value))
          [] code = 63 -> Put(entity, "fillColor", parseInt(value))
          [] code = 2  -> Put(entity, "patternName", value)
          [] code = 91 -> [entity EXCEPT !._loopState.debug.expectedLoops = parseInt(value)]
          [] code = 92 ->
                LET flags == parseInt(value)
                    newLoop == [flags |-> flags, isPolyline |-> PolylineFlag(flags),
                                vertices |-> <<>>, edges |-> <<>>,
                                expectedItems |-> 0, itemCount |-> 0]
                IN  [entity EXCEPT !.loops = Append(@, newLoop),
                                   !._loopState.currentLoop = Len(entity.loops) + 1,
                                   !._loopState.isPolyline = PolylineFlag(flags),
                                   !._loopState.currentEdge = Null,
                                   !._loopState.debug.totalLoops = @ + 1]
          [] code = 72 ->
                IF st.isPolyline
                THEN [entity EXCEPT !._loopState.hasBulges = (parseInt(value) = 1)]
                ELSE IF cl # 0 THEN
                    IF EdgeLimitReached(entity.loops[cl])
                    THEN [entity EXCEPT !._loopState.currentEdge = Null]
                    ELSE LET edgeType == parseInt(value)
                             newEdge == CASE edgeType = 2 -> [type |-> edgeType, ccw |-> 1]
                                          [] edgeType = 4 -> [type |-> edgeType,
                                                              controlPoints |-> <<>>]
                                          [] OTHER -> [type |-> edgeType]
                         IN  [entity EXCEPT
                                 !.loops[cl].edges = Append(@, newEdge),
                                 !.loops[cl].itemCount = @ + 1,
                                 !._loopState.currentEdge =
                                     [loop |-> cl, edge |-> Len(entity.loops[cl].edges) + 1]]
                ELSE entity
          [] code = 73 ->
                IF st.isPolyline
                THEN [entity EXCEPT !._loopState.isClosed = (parseInt(value) = 1)]
                ELSE IF EdgeType(entity) = 2 THEN SetEdge(entity, "ccw", parseInt(value))
                ELSE entity
          [] code = 93 ->
                IF cl # 0 THEN [entity EXCEPT !.loops[cl].expectedItems = parseInt(value)]
                ELSE entity
          [] code \in {97, 98} -> [entity EXCEPT !._loopState = EndGeometry(@)]
          [] code = 10 ->
                IF inPolyline
                THEN [entity EXCEPT !.loops[cl].vertices =
                         Append(@, [x |-> parseFloat(value), y |-> 0, bulge |-> 0])]
                ELSE CASE EdgeType(entity) = 1 -> SetEdge(entity, "x1", parseFloat(value))
                       [] EdgeType(entity) = 2 -> SetEdge(entity, "cx", parseFloat(value))
                       [] EdgeType(entity) = 4 ->
                            LET c == st.currentEdge
                            IN  [entity EXCEPT !.loops[c.loop].edges[c.edge].controlPoints =
                                    Append(@, [x |-> parseFloat(value), y |-> 0])]
                       [] OTHER -> entity
          [] code = 20 ->
                IF inPolyline
                THEN IF Len(verts) > 0
                     THEN [entity EXCEPT !.loops[cl].vertices[Len(verts)].y = parseFloat(value)]
                     ELSE entity
                ELSE CASE EdgeType(entity) = 1 -> SetEdge(entity, "y1", parseFloat(value))
                       [] EdgeType(entity) = 2 -> SetEdge(entity, "cy", parseFloat(value))
                       [] EdgeType(entity) = 4 ->
                            LET c == st.currentEdge
                                cps == entity.loops[c.loop].edges[c.edge].controlPoints
                            IN  IF Len(cps) > 0
                                THEN [entity EXCEPT
                                         !.loops[c.loop].edges[c.edge].controlPoints[Len(cps)].y =
                                             parseFloat(value)]
                                ELSE entity
                       [] OTHER -> entity
          [] code = 11 -> IF EdgeType(entity) = 1 THEN SetEdge(entity, "x2", parseFloat(value))
                          ELSE entity
          [] code = 21 -> IF EdgeType(entity) = 1 THEN SetEdge(entity, "y2", parseFloat(value))
                          ELSE entity
          [] code = 40 -> IF EdgeType(entity) = 2
                          THEN SetEdge(entity, "radius", parseFloat(value)) ELSE entity
          [] code = 50 -> IF EdgeType(entity) = 2
                          THEN SetEdge(entity, "startAngle", parseFloat(value)) ELSE entity
          [] code = 51 -> IF EdgeType(entity) = 2
                          THEN SetEdge(entity, "endAngle", parseFloat(value)) ELSE entity
          [] code = 42 ->
                IF inPolyline /\ Len(verts) > 0
                THEN [entity EXCEPT !.loops[cl].vertices[Len(verts)].bulge = parseFloat(value)]
                ELSE entity
          [] OTHER -> entity

\* the two switch statements of parseEntity, for one group
EntityGroup(entity, entityType, code, value) ==
    LET common == CASE code = 8  -> Put(entity, "layer", value)
                    [] code = 62 -> Put(entity, "color", parseInt(value))
                    [] code = 6  -> Put(entity, "lineType", value)
                    [] OTHER     -> entity
    IN  CASE entityType = "LINE"   -> parseLineEntity(common, code, value)
          [] entityType = "CIRCLE" -> parseCircleEntity(common, code, value)
          [] entityType = "POINT"  -> parsePointEntity(common, code, value)
          [] entityType = "POLYLINE" -> parsePolylineEntity(common, code, value)
          [] entityType = "HATCH"  -> parseHatchEntity(common, code, value)
          [] OTHER                 -> common

\* the while loop of parseEntity
RECURSIVE ParseEntityLoop(_, _, _, _)
ParseEntityLoop(lines, i, entity, entityType) ==
    IF i >= Len(lines) THEN entity
    ELSE LET code  == parseInt(At(lines, i))
             value == At(lines, i + 1)
         IN  IF code = 0 THEN
                 IF entityType = "POLYLINE" /\ "verticesFollow" \in DOMAIN entity
                                            /\ entity.verticesFollow = 1
                 THEN LET r == parsePolylineVertices(lines, i, entity)
                      IN  Put(r.entity, "_endIndex", r.i)
                 ELSE Put(entity, "_endIndex", i)
             ELSE LET next == EntityGroup(entity, entityType, code, value)
                  IN  IF "type" \in DOMAIN next
                      THEN ParseEntityLoop(lines, i + 2, next, entityType)
                      ELSE next

\* parseEntity for the entity types LINE, CIRCLE, POINT, POLYLINE and HATCH and
\* the types it has no handler for
parseEntity(lines, startIndex, entityType) ==
    ParseEntityLoop(lines, startIndex + 2,
                    [type |-> entityType, layer |-> "0", color |-> 256,
                     lineType |-> "BYLAYER", _endIndex |-> startIndex + 2],
                    entityType)

\* the parsing operations below answer [i |-> the index returned, p |-> the
\* parser state they leave]
RECURSIVE parseEntities(_, _, _)
parseEntities(lines, i, p) ==
    IF i >= Len(lines) THEN [i |-> i, p |-> p]
    ELSE LET code  == parseInt(At(lines, i))
             value == At(lines, i + 1)
         IN  IF code = 0 THEN
                 IF value = "ENDSEC" THEN [i |-> i + 2, p |-> p]
                 ELSE LET entity == parseEntity(lines, i, value)
                      IN  parseEntities(lines, entity._endIndex,
                              [p EXCEPT !.entities = Append(@, entity)])
             ELSE parseEntities(lines, i + 2, p)

RECURSIVE parseHeader(_, _, _, _)
parseHeader(lines, i, p, currentVar) ==
    IF i >= Len(lines) THEN [i |-> i, p |-> p]
    ELSE LET code  == parseInt(At(lines, i))
             value == At(lines, i + 1)
         IN  IF code = 0 /\ value = "ENDSEC" THEN [i |-> i + 2, p |-> p]
             ELSE IF code = 9 THEN
                 parseHeader(lines, i + 2,
                     [p EXCEPT !.header = MapSet(@, value, "null")], value)
             ELSE IF currentVar # "" THEN
                 parseHeader(lines, i + 2,
                     [p EXCEPT !.header = MapSet(@, currentVar, parseValue(code, value))],
                     currentVar)
             ELSE parseHeader(lines, i + 2, p, currentVar)

\* the switch of parseLayer, for one group
LayerGroup(layer, code, value) ==
    CASE code = 2  -> [layer EXCEPT !.name = value]
      [] code = 62 -> IF parseInt(value) < 0 /\ parseInt(value) # NaNInt
                      THEN [layer EXCEPT !.visible = FALSE, !.color = 0 - parseInt(value)]
                      ELSE [layer EXCEPT !.color = parseInt(value)]
      [] code = 6  -> [layer EXCEPT !.lineType = value]
      [] code = 70 -> [layer EXCEPT !.flags = parseInt(value)]
      [] OTHER     -> layer

RECURSIVE ParseLayerLoop(_, _, _, _)
ParseLayerLoop(lines, i, p, layer) ==
    LET saved == IF layer.name # "" THEN [p EXCEPT !.layers = MapSet(@, layer.name, layer)]
                 ELSE p
    IN  IF i >= Len(lines) THEN [i |-> i, p |-> saved]
        ELSE LET code  == parseInt(At(lines, i))
                 value == At(lines, i + 1)
             IN  IF code = 0 THEN [i |-> i, p |-> saved]
                 ELSE ParseLayerLoop(lines, i + 2, p, LayerGroup(layer, code, value))
parseLayer(lines, startIndex, p) ==
    ParseLayerLoop(lines, startIndex, p,
                   [name |-> "", color |-> 7, lineType |-> "CONTINUOUS", flags |-> 0,
                    visible |-> TRUE])

\* the switch of parseLinetype, for one group
LinetypeGroup(linetype, code, value) ==
    CASE code = 2  -> [linetype EXCEPT !.name = value]
      [] code = 3  -> [linetype EXCEPT !.description = value]
      [] code = 40 -> [linetype EXCEPT !.patternLength = parseFloat(value)]
      [] code = 49 -> [linetype EXCEPT !.pattern = Append(@, parseFloat(value))]
      [] OTHER     -> linetype

RECURSIVE ParseLinetypeLoop(_, _, _, _)
ParseLinetypeLoop(lines, i, p, linetype) ==
    IF i >= Len(lines) THEN [i |-> i, p |-> p]
    ELSE LET code  == parseInt(At(lines, i))
             value == At(lines, i + 1)
         IN  IF code = 0
             THEN [i |-> i, p |-> [p EXCEPT !.linetypes = MapSet(@, linetype.name, linetype)]]
             ELSE ParseLinetypeLoop(lines, i + 2, p, LinetypeGroup(linetype, code, value))
parseLinetype(lines, startIndex, p) ==
    ParseLinetypeLoop(lines, startIndex, p,
                      [name |-> "", description |-> "", pattern |-> <<>>,
                       patternLength |-> 0])

RECURSIVE ParseTableLoop(_, _, _, _)
ParseTableLoop(lines, i, p, tableType) ==
    IF i >= Len(lines) THEN [i |-> i, p |-> p]
    ELSE LET code  == parseInt(At(lines, i))
             value == At(lines, i + 1)
         IN  IF code = 0 THEN
                 IF value = "ENDTAB" THEN [i |-> i + 2, p |-> p]
                 ELSE IF tableType = "LAYER" /\ value = "LAYER" THEN
                     LET r == parseLayer(lines, i + 2, p)
                     IN  ParseTableLoop(lines, r.i, r.p, tableType)
                 ELSE IF tableType = "LTYPE" /\ value = "LTYPE" THEN
                     LET r == parseLinetype(lines, i + 2, p)
                     IN  ParseTableLoop(lines, r.i, r.p, tableType)
                 ELSE ParseTableLoop(lines, i + 2, p, tableType)
             ELSE ParseTableLoop(lines, i + 2, p, tableType)
parseTable(lines, startIndex, p) ==
    ParseTableLoop(lines, startIndex + 2, p, At(lines, startIndex + 1))

RECURSIVE parseTables(_, _, _)
parseTables(lines, i, p) ==
    IF i >= Len(lines) THEN [i |-> i, p |-> p]
    ELSE LET code  == parseInt(At(lines, i))
             value == At(lines, i + 1)
         IN  IF code = 0 THEN
                 IF value = "ENDSEC" THEN [i |-> i + 2, p |-> p]
                 ELSE IF value = "TABLE" THEN
                     LET r == parseTable(lines, i + 2, p)
                     IN  parseTables(lines, r.i, r.p)
                 ELSE parseTables(lines, i + 2, p)
             ELSE parseTables(lines, i + 2, p)

\* the switch of the block header loop, for one group
BlockGroup(block, code, value) ==
    CASE code = 2  -> Put(block, "name", value)
      [] code = 10 -> Put(block, "x", parseFloat(value))
      [] code = 20 -> Put(block, "y", parseFloat(value))
      [] code = 30 -> Put(block, "z", parseFloat(value))
      [] code = 70 -> Put(block, "flags", parseInt(value))
      [] OTHER     -> block

\* the block header loop of parseBlocks
RECURSIVE ParseBlockHeader(_, _, _)
ParseBlockHeader(lines, i, block) ==
    IF i >= Len(lines) THEN [i |-> i, block |-> block]
    ELSE LET bCode  == parseInt(At(lines, i))
             bValue == At(lines, i + 1)
         IN  IF bCode = 0 THEN [i |-> i, block |-> block]
             ELSE ParseBlockHeader(lines, i + 2, BlockGroup(block, bCode, bValue))

\* parseBlocks; currentBlock is Null outside a block
RECURSIVE parseBlocks(_, _, _, _)
parseBlocks(lines, i, p, currentBlock) ==
    IF i >= Len(lines) THEN [i |-> i, p |-> p]
    ELSE LET code  == parseInt(At(lines, i))
             value == At(lines, i + 1)
         IN  IF code = 0 THEN
                 IF value = "ENDSEC" THEN [i |-> i + 2, p |-> p]
                 ELSE IF value = "BLOCK" THEN
                     LET r == ParseBlockHeader(lines, i + 2, [entities |-> <<>>])
                     IN  parseBlocks(lines, r.i, p, r.block)
                 ELSE IF value = "ENDBLK" THEN
                     parseBlocks(lines, i + 2,
                         IF currentBlock # Null /\ "name" \in DOMAIN currentBlock
                                                /\ currentBlock.name # ""
                         THEN [p EXCEPT !.blocks = MapSet(@, currentBlock.name, currentBlock)]
                         ELSE p,
                         Null)
                 ELSE IF currentBlock # Null THEN
                     LET entity == parseEntity(lines, i, value)
                     IN  parseBlocks(lines, entity._endIndex, p,
                             [currentBlock EXCEPT !.entities = Append(@, entity)])
                 ELSE parseBlocks(lines, i + 2, p, currentBlock)
             ELSE parseBlocks(lines, i + 2, p, currentBlock)

\* the default branch of parseSection: an unknown section is skipped
RECURSIVE SkipSection(_, _)
SkipSection(lines, i) ==
    IF i >= Len(lines) THEN i
    ELSE IF parseInt(At(lines, i)) = 0 /\ At(lines, i + 1) = "ENDSEC" THEN i + 2
    ELSE SkipSection(lines, i + 2)

parseSection(lines, startIndex, p) ==
    LET sectionType == At(lines, startIndex + 1)
        i == startIndex + 2
    IN  CASE sectionType = "HEADER"   -> parseHeader(lines, i, p, "")
          [] sectionType = "TABLES"   -> parseTables(lines, i, p)
          [] sectionType = "BLOCKS"   -> parseBlocks(lines, i, p, Null)
          [] sectionType = "ENTITIES" -> parseEntities(lines, i, p)
          [] OTHER                    -> [i |-> SkipSection(lines, i), p |-> p]

\* the while loop of parse: the parser state when it ends
RECURSIVE ParseLoop(_, _, _)
ParseLoop(lines, i, p) ==
    IF i >= Len(lines) THEN p
    ELSE LET code  == parseInt(At(lines, i))
             value == At(lines, i + 1)
         IN  IF code = 0 /\ value = "SECTION" THEN
                 LET r == parseSection(lines, i + 2, p)
                 IN  ParseLoop(lines, r.i, r.p)
             ELSE ParseLoop(lines, i + 2, p)

\* the object parse returns, given the parser state at its end
ParseResult(p) ==
    [entities |-> p.entities, layers |-> MapValues(p.layers),
     linetypes |-> MapValues(p.linetypes), header |-> p.header, blocks |-> p.blocks]

\* an exception left one of the parsing operations
Thrown(p) ==
    \/ \E k \in 1..Len(p.entities) : "thrown" \in DOMAIN p.entities[k]
    \/ \E b \in 1..Len(p.blocks) :
          \E k \in 1..Len(p.blocks[b].value.entities) :
              "thrown" \in DOMAIN p.blocks[b].value.entities[k]

\* parser.parse(content) on the one parser instance of the application
PParse(lines) ==
    /\ pCalls < MaxCalls
    /\ pLines' = lines
    /\ pParser' = ParseLoop(lines, 0, pParser)
    /\ pResult' = IF Thrown(pParser') THEN [type |-> "TypeError"] ELSE ParseResult(pParser')
    /\ pCalls' = pCalls + 1

(***************************************************************************)
(* Files given to the parser                                               *)
(***************************************************************************)
Section(name, body) == <<"0", "SECTION", "2", name>> \o body \o <<"0", "ENDSEC">>

HeaderBodies ==
    { <<"9", "$ACADVER", "1", "AC1009">>,
      <<"9", "$INSUNITS", "70", "4">> }
TablesBodies ==
    { <<"0", "TABLE", "2", "LAYER", "0", "LAYER", "2", "WALLS", "62", "1", "0", "ENDTAB",
        "0", "TABLE", "2", "LTYPE", "0", "LTYPE", "2", "DASHED", "3", "dash", "40", "1",
        "49", "1", "0", "ENDTAB">>,
      <<"0", "TABLE", "2", "LAYER", "0", "LAYER", "2", "DOORS", "62", "-3", "70", "0",
        "0", "LAYER", "2", "WALLS", "62", "5", "0", "ENDTAB">> }
BlocksBodies ==
    { <<"0", "BLOCK", "2", "B1", "10", "0", "20", "0",
        "0", "POINT", "8", "WALLS", "10", "1", "20", "1", "0", "ENDBLK">> }
EntitiesBodies ==
    { <<"0", "LINE", "8", "WALLS", "10", "0", "20", "0", "11", "1", "21", "0">>,
      <<"0", "CIRCLE", "10", "2", "20", "2", "40", "1",
        "0", "LINE", "62", "3", "10", "1", "20", "0", "11", "1", "21", "1">> }

\* a section of each kind, or none
Sections(name, bodies) == {<<>>} \cup {Section(name, b) : b \in bodies}

\* whole files, and a file cut off in the middle of an entity
Files ==
    { h \o t \o b \o e \o <<"0", "EOF">> :
        h \in Sections("HEADER", HeaderBodies), t \in Sections("TABLES", TablesBodies),
        b \in Sections("BLOCKS", BlocksBodies), e \in Sections("ENTITIES", EntitiesBodies) }
    \cup { <<"0", "SECTION", "2", "ENTITIES", "0", "LINE", "10", "1">>,
           <<"0", "SECTION", "2", "OBJECTS", "0", "DICTIONARY", "0", "ENDSEC", "0", "EOF">> }

\* the texts of the entity records: a POLYLINE with its VERTEX run, a HATCH
\* with a polyline loop, an edge loop and seed points, and a record of a type
\* that parseEntity has no handler for
PolylineBody ==
    <<"0", "POLYLINE", "8", "WALLS", "66", "1", "70", "1",
      "0", "VERTEX", "8", "WALLS", "10", "1", "20", "2",
      "0", "VERTEX", "10", "3", "42", "1",
      "0", "VERTEX", "20", "5", "10", "4",
      "0", "SEQEND", "8", "0",
      "0", "LINE", "10", "0", "20", "0", "11", "1", "21", "0">>
EmptyPolylineBody ==
    <<"0", "POINT", "10", "7", "20", "7",
      "0", "POLYLINE", "66", "1", "0", "SEQEND",
      "0", "POLYLINE", "70", "0", "0", "VERTEX", "10", "1", "20", "1", "0", "SEQEND",
      "0", "POLYLINE", "66", "1", "0", "VERTEX", "0", "CIRCLE", "10", "2", "20", "2",
      "40", "1">>
HatchBody ==
    <<"0", "HATCH", "8", "WALLS", "10", "0", "20", "0", "2", "SOLID", "70", "1", "91", "2",
      "92", "3", "72", "0", "73", "1", "93", "2", "10", "0", "20", "0", "10", "4", "20", "0",
      "42", "1", "97", "0", "10", "6", "20", "6",
      "92", "1", "93", "2", "72", "1", "10", "0", "20", "0", "11", "4", "21", "0",
      "72", "2", "10", "2", "20", "0", "40", "2", "50", "0", "51", "2", "73", "0",
      "72", "1", "10", "9", "20", "9", "11", "8", "21", "8", "97", "0",
      "98", "1", "10", "5", "20", "5", "42", "1",
      "0", "POINT", "10", "1", "20", "1">>
SeedHatchBody ==
    <<"0", "HATCH", "91", "1", "92", "2", "93", "1", "10", "1", "20", "1",
      "98", "1", "10", "5", "20", "5", "42", "1", "40", "3", "11", "2", "21", "2",
      "50", "1", "51", "1",
      "92", "0", "72", "1", "10", "3", "93", "1", "72", "1", "10", "4", "20", "4",
      "72", "2", "10", "6", "40", "6",
      "0", "LINE", "10", "0", "20", "0", "11", "1", "21", "0">>
UnknownBody ==
    <<"0", "LINE", "10", "0", "20", "0", "11", "1", "21", "0",
      "0", "SPLINE", "8", "WALLS", "62", "3", "10", "5", "20", "5", "70", "8",
      "0", "CIRCLE", "8", "DOORS", "10", "2", "20", "2", "40", "1">>

\* whole files with these records, and one with every kind of section
RecordTexts ==
    { Section("ENTITIES", body) \o <<"0", "EOF">> :
        body \in {PolylineBody, EmptyPolylineBody, HatchBody, SeedHatchBody, UnknownBody} }
    \cup { Section("HEADER", <<"9", "$ACADVER", "1", "AC1009">>)
           \o Section("TABLES",
                  <<"0", "TABLE", "2", "LAYER", "0", "LAYER", "2", "DOORS", "62", "-3",
                    "0", "LAYER", "2", "WALLS", "62", "5", "0", "ENDTAB",
                    "0", "TABLE", "2", "LTYPE", "0", "LTYPE", "2", "DASHED", "3", "dash",
                    "40", "1", "49", "1", "0", "ENDTAB">>)
           \o Section("BLOCKS",
                  <<"0", "BLOCK", "2", "B1", "10", "0", "20", "0",
                    "0", "POLYLINE", "66", "1", "0", "VERTEX", "10", "1", "20", "1",
                    "0", "SEQEND", "0", "POINT", "10", "1", "20", "1", "0", "ENDBLK">>)
           \o Section("ENTITIES", <<"0", "LINE", "10", "0", "20", "0", "11", "1", "21", "0">>)
           \o <<"0", "EOF">> }

\* every text cut off after any number of lines
RecordFiles == UNION {{SubSeq(text, 1, n) : n \in 0..Len(text)} : text \in RecordTexts}

(***************************************************************************)
(* Geometry functions called on their own                                  *)
(***************************************************************************)
\* app.calculateGeometricArea(vertices)
KArea(vertices) ==
    /\ kPc = "idle"
    /\ kCall' = [op |-> "calculateGeometricArea", vertices |-> vertices]
    /\ kResult' = calculateGeometricArea(vertices)
    /\ kPc' = "done"

\* DXFParser.bulgeToArc(p1, p2, bulge) (src/src/dxf-parser.js).  The bulge
\* tan(q * pi/8) is kept as q, the sweep theta in quadrants, q in -3..3.  The
\* centre is kept doubled (cx2, cy2) and the radius as 4 * radius^2, which are
\* integers: with c the chord,
\*   radius = c / (2 * sin(|theta|/2)), so 4 * radius^2 is 2 * c^2 for an odd
\*            q and c^2 for |q| = 2;
\*   h = radius * cos(|theta|/2) = (c/2) * cot(|theta|/2), and cot is 1, 0, -1
\*            for |q| = 1, 2, 3.
\* An angle is kept as [vy, vx, quadrants]: Math.atan2(vy, vx) plus so many
\* quarter turns.
CotHalf(q) == CASE Abs(q) = 1 -> 1 [] Abs(q) = 2 -> 0 [] OTHER -> -1

staticBulgeToArc(p1, p2, bulge) ==
    LET dx == p2.x - p1.x
        dy == p2.y - p1.y
        chordSq == dx * dx + dy * dy
        s == IF bulge >= 0 THEN 1 ELSE -1
        \* 2 * (mx + px * h * s), 2 * (my + py * h * s)
        cx2 == (p1.x + p2.x) - dy * CotHalf(bulge) * s
        cy2 == (p1.y + p2.y) + dx * CotHalf(bulge) * s
    IN  IF bulge = 0 THEN Null
        ELSE IF chordSq = 0 THEN Null
        ELSE [cx2 |-> cx2, cy2 |-> cy2,
              radiusSq4 |-> IF Abs(bulge) = 2 THEN chordSq ELSE 2 * chordSq,
              startAngle |-> [vy |-> 2 * p1.y - cy2, vx |-> 2 * p1.x - cx2, quadrants |-> 0],
              endAngle |-> [vy |-> 2 * p1.y - cy2, vx |-> 2 * p1.x - cx2,
                            quadrants |-> bulge],
              counterClockwise |-> bulge > 0,
              theta |-> bulge]

KBulge(p1, p2, bulge) ==
    /\ kPc = "idle"
    /\ kCall' = [op |-> "bulgeToArc", p1 |-> p1, p2 |-> p2, bulge |-> bulge]
    /\ kResult' = staticBulgeToArc(p1, p2, bulge)
    /\ kPc' = "done"

\* WeightManager.minimumEnclosingCircle and its helpers
\* (src/src/weight-manager.js).  A circle is kept in exact arithmetic as
\* [cxn, cyn, den, r2n]: its centre is (cxn / den, cyn / den) and the square of
\* its radius is r2n / den^2.  The returned diameter is twice the radius.
\* circleContains compares distances with a slack of 1e-6; for the integer
\* points given here a point outside a circle misses it by more than 1e-5, so
\* the comparison is the exact one on the squares.
circleContains(c, p) ==
    (p.x * c.den - c.cxn) * (p.x * c.den - c.cxn)
        + (p.y * c.den - c.cyn) * (p.y * c.den - c.cyn) <= c.r2n

circleFrom2Points(a, b) ==
    [cxn |-> a.x + b.x, cyn |-> a.y + b.y, den |-> 2,
     r2n |-> (a.x - b.x) * (a.x - b.x) + (a.y - b.y) * (a.y - b.y)]

circleFrom3Points_Collinear(a, b, c) == circleFrom2Points(a, b)

circleFrom3Points(a, b, c) ==
    LET d == 2 * (a.x * (b.y - c.y) + b.x * (c.y - a.y) + c.x * (a.y - b.y))
        uxn == (a.x * a.x + a.y * a.y) * (b.y - c.y)
                 + (b.x * b.x + b.y * b.y) * (c.y - a.y)
                 + (c.x * c.x + c.y * c.y) * (a.y - b.y)
        uyn == (a.x * a.x + a.y * a.y) * (c.x - b.x)
                 + (b.x * b.x + b.y * b.y) * (a.x - c.x)
                 + (c.x * c.x + c.y * c.y) * (b.x - a.x)
    IN  IF d = 0 THEN circleFrom2Points(a, b)
        ELSE [cxn |-> uxn, cyn |-> uyn, den |-> d,
              r2n |-> (a.x * d - uxn) * (a.x * d - uxn)
                        + (a.y * d - uyn) * (a.y * d - uyn)]

\* the Fisher-Yates shuffle: for i from the last place down to the second,
\* places i and js[i] are swapped, js[i] being the random place in 1..i
RECURSIVE Shuffle(_, _, _)
Shuffle(pts, js, i) ==
    IF i < 2 THEN pts
    ELSE Shuffle([pts EXCEPT ![i] = pts[js[i]], ![js[i]] = pts[i]], js, i - 1)

RECURSIVE EnclosingLoopK(_, _, _, _, _)
EnclosingLoopK(pts, i, j, k, c) ==
    IF k >= j THEN c
    ELSE IF circleContains(c, pts[k]) THEN EnclosingLoopK(pts, i, j, k + 1, c)
    ELSE EnclosingLoopK(pts, i, j, k + 1, circleFrom3Points(pts[i], pts[j], pts[k]))

RECURSIVE EnclosingLoopJ(_, _, _, _)
EnclosingLoopJ(pts, i, j, c) ==
    IF j >= i THEN c
    ELSE IF circleContains(c, pts[j]) THEN EnclosingLoopJ(pts, i, j + 1, c)
    ELSE EnclosingLoopJ(pts, i, j + 1,
                        EnclosingLoopK(pts, i, j, 1, circleFrom2Points(pts[i], pts[j])))

RECURSIVE EnclosingLoopI(_, _, _)
EnclosingLoopI(pts, i, c) ==
    IF i > Len(pts) THEN c
    ELSE IF c # Null /\ circleContains(c, pts[i]) THEN EnclosingLoopI(pts, i + 1, c)
    ELSE EnclosingLoopI(pts, i + 1,
                        EnclosingLoopJ(pts, i, 1,
                                       [cxn |-> pts[i].x, cyn |-> pts[i].y, den |-> 1,
                                        r2n |-> 0]))

\* reading c.center of the null left by an empty list throws
minimumEnclosingCircle(points, js) ==
    LET c == EnclosingLoopI(Shuffle(points, js, Len(points)), 1, Null)
    IN  IF c = Null THEN [type |-> "TypeError"] ELSE c

KCircle(points, js) ==
    /\ kPc = "idle"
    /\ kCall' = [op |-> "minimumEnclosingCircle", points |-> points, js |-> js]
    /\ kResult' = minimumEnclosingCircle(points, js)
    /\ kPc' = "done"

\* the point lists given to minimumEnclosingCircle: up to MaxPoints of eight
\* mesh vertices, in the order of the list below, three of them on one line,
\* four on one circle, one inside, one met twice; and the outcomes of the
\* random draws of the shuffle
MaxPoints == 4
MeshVertices ==
    <<Pt(0, 0), Pt(4, 0), Pt(2, 0), Pt(0, 4), Pt(4, 4), Pt(2, 3), Pt(1, 1), Pt(0, 0)>>
PointLists ==
    {[k \in 1..Cardinality(S) |->
         MeshVertices[CHOOSE m \in S : Cardinality({n \in S : n <= m}) = k]] :
        S \in {T \in SUBSET (1..Len(MeshVertices)) : Cardinality(T) <= MaxPoints}}
Draws(n) == {js \in [2..n -> 1..n] : \A i \in 2..n : js[i] <= i}

\* the vertices and the sweeps, in quadrants, given to bulgeToArc
BulgeVertices == {Pt(0, 0), Pt(4, 0), Pt(0, 2), Pt(3, 3), Pt(-2, 5)}
Sweeps == {-3, -2, -1, 0, 1, 2, 3}

\* closed polygons with straight edges: every list of 3 or MaxCorners corners
\* taken from six points, self-crossing and degenerate ones among them, and
\* the lists too short for a polygon
MaxCorners == 4
Corners == {Pt(0, 0), Pt(4, 0), Pt(4, 3), Pt(0, 3), Pt(2, 1), Pt(-3, 5)}
Polygons ==
    {[k \in 1..n |-> [x |-> f[k].x, y |-> f[k].y, bulge |-> 0]] :
        n \in {3, MaxCorners}, f \in [1..MaxCorners -> Corners]}
        \cup {<<>>, <<[x |-> 0, y |-> 0, bulge |-> 0], [x |-> 4, y |-> 3, bulge |-> 0]>>}

GeometryIdle ==
    /\ kCall = Null
    /\ kPc = "idle"
    /\ kResult = Null

(***************************************************************************)
(* Specifications: one per component; the other components stay idle       *)
(***************************************************************************)
HatchIdle ==
    /\ hLoop = Null
    /\ hPc = "idle"
    /\ hEdges = <<>>
    /\ hUsed = <<>>
    /\ hPath = <<>>
    /\ hCurrent = Null
    /\ hLog = <<>>
    /\ hResult = Null

ChainIdle ==
    /\ cObjects = <<>>
    /\ cPc = "idle"
    /\ cSegs = <<>>
    /\ cResults = <<>>
    /\ cChain = Null
    /\ cPasses = 0
    /\ aObjects = <<>>
    /\ aPc = "idle"
    /\ aOrdered = <<>>
    /\ aResult = Null

LoopsIdle ==
    /\ lEntities = <<>>
    /\ lPc = "idle"
    /\ lSegments = <<>>
    /\ lUsed = {}
    /\ lLoops = <<>>
    /\ lLoopIndices = <<>>
    /\ lI = 0

\* the state new DXFParser() leaves
ParserIdle ==
    /\ pParser = NewParser
    /\ pLines = <<>>
    /\ pResult = Null
    /\ pCalls = 0

DecomposeIdle ==
    /\ dVertices = <<>>
    /\ dPc = "idle"
    /\ dResult = <<>>

ConnectIdle ==
    /\ fEntities = <<>>
    /\ fPc = "idle"
    /\ fResult = <<>>

AreaIdle ==
    /\ gEntities = <<>>
    /\ gPc = "idle"
    /\ gResult = Null

\* the state new OSNAPSystem(renderer) leaves, before a file is loaded; layer
\* "A" is in renderer.layers, the other layers of the drawing are not
SnapIdle ==
    /\ oEntities = <<>>
    /\ oLayers = [name \in {"A"} |-> TRUE]
    /\ oScale = 1
    /\ oModes = [endpoint |-> TRUE, midpoint |-> TRUE, center |-> TRUE, quadrant |-> TRUE,
                 intersection |-> TRUE, perpendicular |-> TRUE, nearest |-> TRUE,
                 node |-> TRUE]
    /\ oPc = "idle"
    /\ oCursor = Null
    /\ oReference = Null
    /\ oSnap = Null

\* nothing has been called yet
\* the state new MeasurementTools(...) leaves; the fields the constructor does
\* not set are undefined, which is kept as null here
MeasureIdle ==
    /\ mActiveTool = "null"
    /\ mPoints = <<>>
    /\ mCurrent = Null
    /\ mIntersection = Null
    /\ mSmartMode = "null"
    /\ mReferenceEntity = Null
    /\ mMeasurements = <<>>
    /\ mResult = Null
    /\ mClicks = 0
    /\ mEvent = "none"

Init ==
    /\ HatchIdle /\ ChainIdle /\ LoopsIdle /\ ParserIdle
    /\ DecomposeIdle /\ ConnectIdle /\ AreaIdle
    /\ SnapIdle
    /\ MeasureIdle
    /\ GeometryIdle

NextHatch ==
    \/ \E loop \in HatchLoops : HBegin(loop) /\ UNCHANGED <<cvars, lvars, pvars, dvars, fvars, gvars, ovars, mvars, kvars>>
    \/ (HStitch /\ UNCHANGED <<cvars, lvars, pvars, dvars, fvars, gvars, ovars, mvars, kvars>>)
    \/ (HFinish /\ UNCHANGED <<cvars, lvars, pvars, dvars, fvars, gvars, ovars, mvars, kvars>>)

SpecHatch == Init /\ [][NextHatch]_vars

NextChain ==
    \/ \E objects \in ChainInputs : CStart(objects) /\ UNCHANGED <<hvars, lvars, pvars, dvars, fvars, gvars, ovars, mvars, kvars>>
    \/ (CPass /\ UNCHANGED <<hvars, lvars, pvars, dvars, fvars, gvars, ovars, mvars, kvars>>)
    \/ (CReturn /\ UNCHANGED <<hvars, lvars, pvars, dvars, fvars, gvars, ovars, mvars, kvars>>)
    \/ \E objects \in ChainInputs : CAnalyze(objects) /\ UNCHANGED <<hvars, lvars, pvars, dvars, fvars, gvars, ovars, mvars, kvars>>

NextLoops ==
    \/ \E entities \in LoopInputs : LStart(entities) /\ UNCHANGED <<hvars, cvars, pvars, dvars, fvars, gvars, ovars, mvars, kvars>>
    \/ (LPrune /\ UNCHANGED <<hvars, cvars, pvars, dvars, fvars, gvars, ovars, mvars, kvars>>)
    \/ (LExtract /\ UNCHANGED <<hvars, cvars, pvars, dvars, fvars, gvars, ovars, mvars, kvars>>)
    \/ (LReturn /\ UNCHANGED <<hvars, cvars, pvars, dvars, fvars, gvars, ovars, mvars, kvars>>)

SpecLoops == Init /\ [][NextLoops]_vars

NextParser ==
    \E lines \in Files : PParse(lines) /\ UNCHANGED <<hvars, cvars, lvars, dvars, fvars, gvars, ovars, mvars, kvars>>

SpecParser == Init /\ [][NextParser]_vars

\* the first call of parse on a new DXFParser
NextRecords ==
    \E lines \in RecordFiles :
        pCalls = 0 /\ PParse(lines)
            /\ UNCHANGED <<hvars, cvars, lvars, dvars, fvars, gvars, ovars, mvars, kvars>>

SpecRecords == Init /\ [][NextRecords]_vars

NextGeometry ==
    \/ \E vertices \in Polygons :
          KArea(vertices)
              /\ UNCHANGED <<hvars, cvars, lvars, pvars, dvars, fvars, gvars, ovars, mvars>>
    \/ \E p1 \in BulgeVertices, p2 \in BulgeVertices, bulge \in Sweeps :
          KBulge(p1, p2, bulge)
              /\ UNCHANGED <<hvars, cvars, lvars, pvars, dvars, fvars, gvars, ovars, mvars>>
    \/ \E points \in PointLists :
          \E js \in Draws(Len(points)) :
              KCircle(points, js)
                  /\ UNCHANGED <<hvars, cvars, lvars, pvars, dvars, fvars, gvars, ovars, mvars>>

SpecGeometry == Init /\ [][NextGeometry]_vars

SpecChain == Init /\ [][NextChain]_vars

\* findAllChains or extractAllLoops, either one called on its own
NextChainsAndLoops ==
    \/ (LoopsIdle /\ NextChain)
    \/ (ChainIdle /\ NextLoops)

SpecChainsAndLoops == Init /\ [][NextChainsAndLoops]_vars

\* The while loop of findAllChains keeps running: a pass is taken while a segment
\* is unused, and the method returns once none is.  CPass is enabled exactly
\* when CPassTaken is and CReturn exactly when CReturnTaken is, so fairness is
\* stated on the loop condition itself, which TLC evaluates without building
\* the chain
CPassTaken ==
    /\ cPc = "loop"
    /\ FirstUnused(cSegs) # -1
    /\ cPasses <= Len(cSegs)
    /\ cPasses' = cPasses + 1
CReturnTaken ==
    /\ cPc = "loop"
    /\ FirstUnused(cSegs) = -1
    /\ cPc' = "done"
SpecChainFair == SpecChain /\ WF_cPasses(CPassTaken) /\ WF_cPc(CReturnTaken)

NextDecompose ==
    \E vertices \in DecomposeInputs :
        DCall(vertices) /\ UNCHANGED <<hvars, cvars, lvars, pvars, fvars, gvars, ovars, mvars, kvars>>

SpecDecompose == Init /\ [][NextDecompose]_vars

NextConnect ==
    \E entities \in Selections :
        FCall(entities) /\ UNCHANGED <<hvars, cvars, lvars, pvars, dvars, gvars, ovars, mvars, kvars>>

SpecConnect == Init /\ [][NextConnect]_vars

NextArea ==
    \E entities \in AreaSelections :
        GCall(entities) /\ UNCHANGED <<hvars, cvars, lvars, pvars, dvars, fvars, ovars, mvars, kvars>>

SpecArea == Init /\ [][NextArea]_vars

NextSnap ==
    \/ \E entities \in Drawings, scale \in ViewScales :
           OLoad(entities, scale) /\ UNCHANGED <<hvars, cvars, lvars, pvars, dvars, fvars, gvars, mvars, kvars>>
    \/ \E call \in SnapCalls :
           OMouseMove(call[1], call[2])
               /\ UNCHANGED <<hvars, cvars, lvars, pvars, dvars, fvars, gvars, mvars, kvars>>
    \/ \E k \in 1..Len(oEntities) :
           ODelete(k) /\ UNCHANGED <<hvars, cvars, lvars, pvars, dvars, fvars, gvars, mvars, kvars>>
    \/ \E name \in DOMAIN oLayers, visible \in BOOLEAN :
           OLayerVisible(name, visible)
               /\ UNCHANGED <<hvars, cvars, lvars, pvars, dvars, fvars, gvars, mvars, kvars>>
    \/ \E mode \in DOMAIN oModes, enabled \in BOOLEAN :
           toggleSnapMode(mode, enabled)
               /\ UNCHANGED <<hvars, cvars, lvars, pvars, dvars, fvars, gvars, mvars, kvars>>

SpecSnap == Init /\ [][NextSnap]_vars

NextMeasure ==
    \/ \E tool \in MeasureTools :
           activateMeasurementTool(tool)
               /\ UNCHANGED <<hvars, cvars, lvars, pvars, dvars, fvars, gvars, ovars, kvars>>
    \/ \E at \in MeasurePointings :
           MClick(at[1], at[2])
               /\ UNCHANGED <<hvars, cvars, lvars, pvars, dvars, fvars, gvars, ovars, kvars>>
    \/ \E at \in MeasurePointings :
           MMouseMove(at[1], at[2])
               /\ UNCHANGED <<hvars, cvars, lvars, pvars, dvars, fvars, gvars, ovars, kvars>>
    \/ MEscape /\ UNCHANGED <<hvars, cvars, lvars, pvars, dvars, fvars, gvars, ovars, kvars>>

SpecMeasure == Init /\ [][NextMeasure]_vars

(***************************************************************************)
(* Properties of HatchBoundaryResolver                                     *)
(***************************************************************************)
HEdgeStyle == hPc # "idle" /\ hLoop # Null /\ ~hLoop.isPolyline
HReturned == hPc = "done" /\ hLoop # Null
HInterpreted == \A k \in 1..Len(hLoop.edges) : hLoop.edges[k].type \in {1, 2}
HRepairs == {k \in 1..Len(hLog) : hLog[k] # "STITCH_FAIL"}

\* C2: when resolveEdgeLoop returns ok:true every input edge has been consumed,
\* and the path holds the n edges plus the inserted bridging LINEs.
C2_AllEdgesConsumed ==
    (HReturned /\ HEdgeStyle /\ hResult.ok) =>
        /\ Range(hUsed) = 1..Len(hEdges)
        /\ Len(hResult.path) = Len(hEdges) + Cardinality(HRepairs)

\* the unused endpoints and their squared distance to the tip
HTip == [x |-> hCurrent.x2, y |-> hCurrent.y2]
HUnused == {k \in 1..Len(hEdges) : k \notin Range(hUsed)}
HEndpointDists ==
    {dist(hEdges[k].x1, hEdges[k].y1, HTip.x, HTip.y) : k \in HUnused}
        \cup {dist(hEdges[k].x2, hEdges[k].y2, HTip.x, HTip.y) : k \in HUnused}
HNearest == CHOOSE d \in HEndpointDists : \A o \in HEndpointDists : d <= o

\* a pass that finds the nearest unused endpoint farther than the tolerance
\* inserts a LINE from the tip to an endpoint at that distance and goes on with
\* the edge that starts there; a pass that finds it nearer inserts nothing
HBridgingPass ==
    (hPc = "stitch" /\ Len(hPath) < Len(hEdges) /\ hPath' # hPath) =>
        IF MoreTol(HNearest, TolSq(hEdges)) THEN
            /\ hPc' = "stitch"
            /\ Len(hPath') = Len(hPath) + 2
            /\ SubSeq(hPath', 1, Len(hPath)) = hPath
            /\ LET line == hPath'[Len(hPath) + 1]
                   next == hPath'[Len(hPath) + 2]
               IN  /\ line.type = "LINE"
                   /\ line.x1 = HTip.x /\ line.y1 = HTip.y
                   /\ dist(line.x2, line.y2, HTip.x, HTip.y) = HNearest
                   /\ next.x1 = line.x2 /\ next.y1 = line.y2
                   /\ \E k \in HUnused : next \in {hEdges[k], reverseEdge(hEdges[k])}
        ELSE
            /\ Len(hPath') = Len(hPath) + 1
            /\ \E k \in HUnused : hPath'[Len(hPath')] \in {hEdges[k], reverseEdge(hEdges[k])}

\* C3: an edge-style loop of at least one edge, all line or arc, is resolved
\* with ok:true whatever the gaps between its edges, and every pass whose
\* nearest unused endpoint is farther than the tolerance inserts a LINE to it.
C3_NeverFailsOnGap ==
    /\ []((HReturned /\ HEdgeStyle /\ Len(hLoop.edges) >= 1 /\ HInterpreted)
             => hResult.ok)
    /\ [][HBridgingPass]_vars

\* a loop returned with ok:true although a pass had to bridge a gap longer
\* than the whole unit square
C3_Witness ==
    /\ HReturned /\ HEdgeStyle /\ hResult.ok
    /\ \E k \in 1..Len(hLog) : hLog[k] = "HATCH_REPAIR: Bridging gap"
    /\ \E k \in 1..Len(hPath) - 1 :
          dist(hPath[k].x2, hPath[k].y2, hPath[k + 1].x2, hPath[k + 1].y2) > Far

\* C4: a loop holding an edge of an uninterpreted type (3, 4, ...) is answered
\* with a result object; resolveLoop does not throw.
C4_UninterpretedEdgeNoThrow ==
    (HEdgeStyle /\ ~HInterpreted) => hPc # "threw"

\* the end of segment k lies within the tolerance of the start of segment k+1,
\* cyclically
Chained(path, t) ==
    \A k \in 1..Len(path) :
        LET a == path[k]
            b == path[(k % Len(path)) + 1]
        IN  ~MoreTol(dist(a.x2, a.y2, b.x1, b.y1), t)

\* C5: every path returned with ok:true by resolveEdgeLoop is a closed chain
\* under the adaptive tolerance, reversed for winding or not.
C5_ClosedChain ==
    (HReturned /\ HEdgeStyle /\ hResult.ok) => Chained(hResult.path, TolSq(hEdges))

\* a returned path of an arc and lines that was reversed for winding
C5_Witness ==
    /\ HReturned /\ HEdgeStyle /\ hResult.ok
    /\ hResult.path # hPath
    /\ Len(hResult.path) >= 3
    /\ \E k \in 1..Len(hResult.path) : hResult.path[k].type = "ARC"

\* C6: every path returned with ok:true by resolveLoop has signed area >= 0.
C6_CcwWinding ==
    (HReturned /\ hResult.ok) => AreaNonNegative(calculateLoopArea(hResult.path))


(***************************************************************************)
(* Properties of WeightManager chain assembly                              *)
(***************************************************************************)
\* C7: the four sides of the unit square, in any order and direction, give
\* exactly one chain; it is closed, holds all four segments, and its area is 1.
C7_UnitSquareOneChain ==
    (cPc = "done" /\ cObjects \in UnitSquares) =>
        /\ Len(cResults) = 1
        /\ Range(cResults[1].objects) = 1..4
        /\ Len(cResults[1].objects) = 4
        /\ \A k \in 1..4 :
              LET v == cResults[1].vertices[k]
                  w == cResults[1].vertices[(k % 4) + 1]
              IN  distanceTo(v, w) = 1
        /\ calculateChainArea(cResults[1].vertices) = [i |-> 4, p |-> 0]

\* findAllChains has returned for a unit square whose sides were given out of
\* order and with a side reversed
C7_Witness ==
    /\ cPc = "done"
    /\ cObjects \in UnitSquares
    /\ cObjects[1] = LineObj(1, 1, 0, 1)
    /\ cObjects[2] = LineObj(1, 0, 0, 0)
    /\ Len(cResults) = 1

\* the tip of a chain lies within the tolerance of its start
TipAtStart(ordered) ==
    WithinChainTol(distanceTo(ordered[1].p1, ordered[Len(ordered)].p2))

\* C9 (as claimed): a chain is reported closed if and only if its tip lies
\* within the tolerance of its start, whatever its length.
C9_ClosedIffTipAtStart ==
    /\ cChain # Null => (cChain.closed <=> TipAtStart(cChain.orderedSegments))
    /\ (aPc = "done" /\ Len(aOrdered) >= 1) => (aResult.closed <=> TipAtStart(aOrdered))

\* C9 (amended): a chain is reported closed if and only if it has at least
\* three segments and its tip lies within the tolerance of its start.
C9_ClosedIffThreeAndTipAtStart ==
    /\ cChain # Null =>
          (cChain.closed <=> (/\ Len(cChain.orderedSegments) >= 3
                              /\ TipAtStart(cChain.orderedSegments)))
    /\ (aPc = "done" /\ Len(aOrdered) >= 1) =>
          (aResult.closed <=> (Len(aOrdered) >= 3 /\ TipAtStart(aOrdered)))

\* findAllChains has assembled the two half circles into a two-segment chain
\* whose tip is back at the start, and the chain is not reported closed
C9_Witness ==
    /\ cChain # Null
    /\ Len(cChain.orderedSegments) = 2 /\ TipAtStart(cChain.orderedSegments)
    /\ cChain.orderedSegments[1].bulge = 2
    /\ ~cChain.closed

\* C10: findAllChains terminates; every pass marks at least its starting
\* segment used, the outer loop runs at most once per segment, and on return
\* every segment is marked used.
C10_Terminates ==
    /\ (cPc = "loop") ~> (cPc = "done")
    /\ [](cPasses <= Len(cSegs))
    /\ [](cPc = "done" => \A k \in 1..Len(cSegs) : cSegs[k].used)
    /\ [][cPasses' # cPasses =>
            /\ cSegs'[FirstUnused(cSegs)].used
            /\ \A k \in 1..Len(cSegs) : cSegs[k].used => cSegs'[k].used]_vars

\* findAllChains has returned after dropping an open chain and keeping a closed one
C10_Witness ==
    /\ cPc = "done"
    /\ cPasses = 2
    /\ Len(cResults) = 1
    /\ Len(cSegs) > Len(cResults[1].objects)
    /\ \A k \in 1..Len(cSegs) : cSegs[k].used

(***************************************************************************)
(* Properties of extractAllLoops                                           *)
(***************************************************************************)
\* the indexes of the bridge, the square and the triangle in a bridged drawing
BridgeIdx == {k \in 1..Len(lEntities) : lEntities[k] \in {BridgeThere, BridgeBack}}
SidesIdx(sides) ==
    {k \in 1..Len(lEntities) :
        \E j \in 1..Len(sides) : lEntities[k] \in {sides[j], ReversedEnt(sides[j])}}
LoopCorners(loop) == {Pt(loop[k].x, loop[k].y) : k \in 1..Len(loop)}
\* loop n of the result is made of the given sides and of nothing else
LoopIsExactly(n, sides, corners) ==
    /\ Len(lLoops[n]) = Len(sides)
    /\ LoopCorners(lLoops[n]) = corners
    /\ Range(lLoopIndices[n]) = SidesIdx(sides)
    /\ \A k \in 1..Len(lLoops[n]) : lLoops[n][k].bulge = 0

\* C8: for a square and a triangle joined by a bridge drawn there and back,
\* both bridge segments are removed before any loop is built, and exactly two
\* loops are returned, the square and the triangle, each of its own segments.
C8_BridgePruned ==
    (lEntities \in BridgedDrawings /\ lPc \in {"extract", "done"}) =>
        /\ BridgeIdx \subseteq lUsed
        /\ lI = 1 => (lUsed = BridgeIdx /\ lLoops = <<>>)
        /\ \A n \in 1..Len(lLoopIndices) : Range(lLoopIndices[n]) \cap BridgeIdx = {}
        /\ lPc = "done" =>
              /\ Len(lLoops) = 2
              /\ \E n, m \in 1..2 :
                    /\ LoopIsExactly(n, SquareSides, SquareCorners)
                    /\ LoopIsExactly(m, TriangleSides, TriangleCorners)

\* extractAllLoops has returned for a drawing whose bridge segments lie apart,
\* the first of them ahead of every side, and one of whose sides is reversed
C8_Witness ==
    /\ lPc = "done"
    /\ lEntities \in BridgedDrawings
    /\ lEntities[1] = BridgeBack
    /\ lEntities[6] = BridgeThere
    /\ \E k \in 1..Len(lEntities) : lEntities[k] = ReversedEnt(SquareSides[2])
    /\ Len(lLoops) = 2

(***************************************************************************)
(* Properties of DXFParser                                                 *)
(***************************************************************************)
\* C1: the result of every call of parse on the one parser instance holds the
\* entities, layers, linetypes, blocks and header variables of the text of
\* that call, and nothing parsed from earlier texts.
C1_NoRetainedState ==
    pCalls >= 1 => pResult = ParseResult(ParseLoop(pLines, 0, NewParser))


(***************************************************************************)
(* Properties of findAllChains and extractAllLoops together                *)
(***************************************************************************)
\* no object is in two returned chains, nor twice in one
ChainSegmentsOnce ==
    \A m, n \in 1..Len(cResults) :
        \A a \in 1..Len(cResults[m].objects), b \in 1..Len(cResults[n].objects) :
            cResults[m].objects[a] = cResults[n].objects[b] => (m = n /\ a = b)

\* every segment of the chain is the segment of its object, either way round,
\* ends within the tolerance of the start of the next, and the last one ends
\* within the tolerance of the start of the first
ChainClosedWithin(ordered) ==
    \A k \in 1..Len(ordered) :
        LET seg == extractSegment(cObjects, ordered[k].object)
        IN  /\ seg # Null
            /\ <<ordered[k].p1, ordered[k].p2>> \in {<<seg.p1, seg.p2>>, <<seg.p2, seg.p1>>}
            /\ WithinChainTol(distanceTo(ordered[k].p2, ordered[(k % Len(ordered)) + 1].p1))

\* no segment index is in two returned loops, nor twice in one
LoopSegmentsOnce ==
    \A m, n \in 1..Len(lLoopIndices) :
        \A a \in 1..Len(lLoopIndices[m]), b \in 1..Len(lLoopIndices[n]) :
            lLoopIndices[m][a] = lLoopIndices[n][b] => (m = n /\ a = b)

\* loop n: every vertex is an end of its segment, and the other end of the
\* segment matches the next vertex, cyclically
LoopClosedWithin(n) ==
    LET idx == lLoopIndices[n]
        vs  == lLoops[n]
    IN  /\ Len(idx) = Len(vs)
        /\ \A k \in 1..Len(vs) :
              LET seg  == lSegments[idx[k]]
                  v    == Pt(vs[k].x, vs[k].y)
                  next == vs[(k % Len(vs)) + 1]
                  far  == IF seg.p1 = v THEN seg.p2 ELSE seg.p1
              IN  v \in {seg.p1, seg.p2} /\ matches(far, Pt(next.x, next.y))

\* C11: the chains findAllChains returns and the loops extractAllLoops returns are
\* pairwise disjoint and closed: no input segment is in two of them nor twice in
\* one, consecutive segments meet within the call's tolerance, and the last
\* segment ends within that tolerance of the start of the first.
C11_DisjointClosed ==
    /\ ChainSegmentsOnce
    /\ (cChain # Null /\ cChain.closed) =>
          /\ cResults # <<>>
          /\ cResults[Len(cResults)].objects =
                 [k \in 1..Len(cChain.orderedSegments) |-> cChain.orderedSegments[k].object]
          /\ ChainClosedWithin(cChain.orderedSegments)
    /\ LoopSegmentsOnce
    /\ Len(lLoops) = Len(lLoopIndices)
    /\ \A n \in 1..Len(lLoops) : LoopClosedWithin(n)

\* findAllChains has returned two chains, the second built with a flipped segment
C11_Witness ==
    /\ cPc = "done"
    /\ Len(cResults) = 2
    /\ cChain.closed
    /\ \E k \in 1..Len(cChain.orderedSegments) :
          cChain.orderedSegments[k].p1 =
              extractSegment(cObjects, cChain.orderedSegments[k].object).p2


(***************************************************************************)
(* Properties of decomposeComplexLoops                                     *)
(***************************************************************************)
\* no two vertices of the loop lie within the tolerance of each other
SimpleLoop(loop) ==
    \A i, j \in 1..Len(loop) : i # j => ~decomposeMatches(loop[i], loop[j])

\* C12: every loop decomposeComplexLoops returns is simple: neither a returned
\* sub-loop nor the residual loop holds two vertices within 0.15 of each other.
C12_AllSimple ==
    dPc = "done" => \A n \in 1..Len(dResult) : SimpleLoop(dResult[n])


(***************************************************************************)
(* Properties of findConnectedLoops                                        *)
(***************************************************************************)
\* entities i and j of the selection have end points within the tolerance
Touching(i, j) == i # j /\ connected(fEntities[i], fEntities[j])

\* the entities linked to those of S by a chain of touching entities
RECURSIVE Linked(_)
Linked(S) ==
    LET T == S \cup {j \in 1..Len(fEntities) : \E i \in S : Touching(i, j)}
    IN  IF T = S THEN S ELSE Linked(T)

\* the component that holds entity i
ComponentOf(i) == {n \in 1..Len(fResult) : i \in Range(fResult[n])}

\* C13: findConnectedLoops returns a partition of the selection into connected
\* components: every entity is in exactly one component, once; entities with
\* end points within 0.05 of each other are in the same component; entities of
\* one component are linked by a chain of such entities.
C13_ConnectedComponents ==
    fPc = "done" =>
        /\ \A i \in 1..Len(fEntities) :
              /\ Cardinality(ComponentOf(i)) = 1
              /\ \A n \in ComponentOf(i) :
                    Cardinality({k \in 1..Len(fResult[n]) : fResult[n][k] = i}) = 1
        /\ \A n \in 1..Len(fResult) :
              fResult[n] # <<>> /\ Range(fResult[n]) \subseteq 1..Len(fEntities)
        /\ \A i, j \in 1..Len(fEntities) :
              /\ Touching(i, j) => ComponentOf(i) = ComponentOf(j)
              /\ ComponentOf(i) = ComponentOf(j) => j \in Linked({i})

\* three entities in one component, two of them linked through the third only,
\* which comes last in the selection
C13_Witness ==
    /\ fPc = "done"
    /\ Len(fEntities) = 3
    /\ Len(fResult) = 1
    /\ ~Touching(1, 2)
    /\ Touching(1, 3) /\ Touching(2, 3)


(***************************************************************************)
(* Properties of calculateArea                                             *)
(***************************************************************************)
\* the areas above 0.001 of the loops the selection yields, in loop order
YieldedAreas == LoopAreas(AllLoops(gEntities, findConnectedLoops(gEntities), 1), 1)

\* an area of the list that none exceeds
LargestOf(areas) ==
    areas[CHOOSE k \in 1..Len(areas) : \A j \in 1..Len(areas) : ~AreaLess(areas[k], areas[j])]

\* C14: when the selection yields k >= 2 loops with area above 0.001,
\* calculateArea returns count = k and area = largest - (sum of the others),
\* whatever the position of the loops: the result follows from the sizes alone
\* and is negative when the others sum to more than the largest.
C14_LargestMinusOthers ==
    (gPc = "done" /\ Len(YieldedAreas) >= 2) =>
        LET largest == LargestOf(YieldedAreas)
            others  == AreaMinus(HolesArea(YieldedAreas, 1), largest)
        IN  /\ gResult # Null
            /\ gResult.count = Len(YieldedAreas)
            /\ gResult.area = AreaMinus(largest, others)
            /\ AreaLess(largest, others) <=> IsNegative(gResult.area.i, gResult.area.p)

\* three loops, the two smaller ones outside the largest: the area returned is
\* negative
C14_Witness ==
    /\ gPc = "done"
    /\ gEntities = Triangle(300, 0, 60, 60) \o Triangle(0, 0, 100, 100)
                       \o Triangle(300, 100, 90, 90)
    /\ gResult.count = 3
    /\ IsNegative(gResult.area.i, gResult.area.p)

(***************************************************************************)
(* Properties of OSNAPSystem                                               *)
(***************************************************************************)
\* the candidates of the last findSnapPoint call that are closer on screen than
\* the snap tolerance
Candidates ==
    LET snaps == SnapsInOrder(oModes, oLayers, oEntities, 1, oCursor, oReference)
    IN  {snaps[n] : n \in {m \in 1..Len(snaps) :
            ScreenDistSq(oScale, snaps[m].point, oCursor) < SnapTolerance * SnapTolerance}}

ClosestOf(S, snap) ==
    /\ snap \in S
    /\ \A other \in S :
          ScreenDistSq(oScale, snap.point, oCursor) <= ScreenDistSq(oScale, other.point, oCursor)

\* C15: findSnapPoint returns the closest special candidate within tolerance
\* if there is one, even when a nearest candidate is closer and in every order
\* of the entities; otherwise the closest nearest candidate; and null when no
\* candidate is within tolerance.
C15_SpecialBeatsNearest ==
    oPc = "moved" =>
        LET special == {snap \in Candidates : snap.type \in specialSnaps}
            nearest == {snap \in Candidates : snap.type = "nearest"}
        IN  IF special # {} THEN ClosestOf(special, oSnap)
            ELSE IF nearest # {} THEN ClosestOf(nearest, oSnap)
            ELSE oSnap = Null

\* a special candidate was returned although a nearest candidate, enumerated
\* before it, was closer to the cursor
C15_Witness ==
    /\ oPc = "moved"
    /\ oSnap # Null
    /\ oSnap.type \in specialSnaps
    /\ \E snap \in Candidates :
          /\ snap.type = "nearest"
          /\ snap.entity < oSnap.entity
          /\ ScreenDistSq(oScale, snap.point, oCursor)
                < ScreenDistSq(oScale, oSnap.point, oCursor)

\* entity k is shown: neither its layer nor the entity itself is hidden
Shown(k) ==
    /\ oEntities[k].visible
    /\ oEntities[k].layer \in DOMAIN oLayers => oLayers[oEntities[k].layer]

\* C16: findSnapPoint never returns a snap point whose owning entity is hidden,
\* be it through its layer or through its own visible field.
C16_OnlyVisibleEntities ==
    (oPc = "moved" /\ oSnap # Null) => Shown(oSnap.entity)

\* the point where the shown LINE entities i and j cross, or Null
Crossing(i, j) ==
    IF /\ oEntities[i].type = "LINE" /\ oEntities[j].type = "LINE"
       /\ Shown(i) /\ Shown(j)
    THEN lineLineIntersection(Pt(oEntities[i].x1, oEntities[i].y1),
                              Pt(oEntities[i].x2, oEntities[i].y2),
                              Pt(oEntities[j].x1, oEntities[j].y1),
                              Pt(oEntities[j].x2, oEntities[j].y2))
    ELSE Null

\* C17: when two shown LINE entities cross within snap tolerance of the cursor,
\* the intersection mode is enabled and the crossing point is closer to the
\* cursor than every other special candidate, the snap returned is of type
\* intersection at the crossing point.
C17_IntersectionSnap ==
    oPc = "moved" =>
        \A i \in 1..Len(oEntities), j \in 1..Len(oEntities) :
            (/\ i < j
             /\ oModes.intersection
             /\ Crossing(i, j) # Null
             /\ ScreenDistSq(oScale, Crossing(i, j), oCursor) < SnapTolerance * SnapTolerance
             /\ \A snap \in Candidates :
                   snap.type \in specialSnaps =>
                       ScreenDistSq(oScale, Crossing(i, j), oCursor)
                           < ScreenDistSq(oScale, snap.point, oCursor))
            => /\ oSnap # Null
               /\ oSnap.type = "intersection"
               /\ oSnap.point = Crossing(i, j)

(***************************************************************************)
(* Properties of MeasurementTools                                          *)
(***************************************************************************)
LastOf(s) == s[Len(s)]

\* C18: with the angle tool active and two lines selected, the next click
\* returns a finalised angle measurement of exactly those two lines, appends it
\* to renderer.measurements and resets the tool to its first step, whatever
\* clicks, mouse moves and Escape keys came before.
C18_AnglePlacement ==
    [][ (mActiveTool = "angle" /\ Len(mPoints) = 2 /\ mEvent' = "click") =>
            /\ mResult'.type = "angle"
            /\ ~mResult'.isPreview
            /\ mResult'.lines = mPoints
            /\ Len(mMeasurements') > 0
            /\ LastOf(mMeasurements') = mResult'
            /\ mPoints' = <<>> ]_vars

\* C19: with the distance tool active the first and the second click each store
\* one point and return null, the third click returns a finalised measurement
\* of the two stored points, appends it to renderer.measurements and empties
\* the points; the point count is always 0, 1 or 2.
C19_DistanceCycle ==
    [][ (mActiveTool = "distance" /\ mEvent' = "click") =>
            /\ Len(mPoints) \in 0..2
            /\ Len(mPoints') \in 0..2
            /\ Len(mPoints) < 2 =>
                  /\ Len(mPoints') = Len(mPoints) + 1
                  /\ SubSeq(mPoints', 1, Len(mPoints)) = mPoints
                  /\ mResult' = Null
                  /\ WithoutPreviews(mMeasurements') = WithoutPreviews(mMeasurements)
            /\ Len(mPoints) = 2 =>
                  /\ mResult'.type = "distance"
                  /\ ~mResult'.isPreview
                  /\ mResult'.points = mPoints
                  /\ mMeasurements' = Append(WithoutPreviews(mMeasurements), mResult')
                  /\ mPoints' = <<>> ]_vars

\* the third of three clicks since the tool was activated has produced the one
\* measurement of the list
C19_Witness ==
    /\ mActiveTool = "distance"
    /\ mEvent = "click"
    /\ mClicks = 3
    /\ mPoints = <<>>
    /\ mResult # Null
    /\ mMeasurements = <<mResult>>

\* mode and value as the placement q lies to the definition points p1 and p2
ModeByPlacement(p1, p2, q) ==
    LET xInside == MinOf(p1.x, p2.x) <= q.x /\ q.x <= MaxOf(p1.x, p2.x)
        yInside == MinOf(p1.y, p2.y) <= q.y /\ q.y <= MaxOf(p1.y, p2.y)
    IN  CASE ~xInside /\ yInside -> <<"vertical", (p2.y - p1.y) * (p2.y - p1.y)>>
          [] xInside /\ ~yInside -> <<"horizontal", (p2.x - p1.x) * (p2.x - p1.x)>>
          [] OTHER -> <<"aligned", dist(p1.x, p1.y, p2.x, p2.y)>>

\* the finalised distance measurements, and the preview of the placement step
PlacedDistances ==
    {mMeasurements[n] : n \in {k \in 1..Len(mMeasurements) :
        /\ mMeasurements[k].type = "distance"
        /\ \/ ~mMeasurements[k].isPreview
           \/ mActiveTool = "distance" /\ Len(mPoints) = 2 /\ mEvent = "move"}}

\* C20: the placement click of the distance tool gives mode vertical and value
\* |p2.y - p1.y| when the placement lies outside the x range and inside the y
\* range of the definition points, horizontal and |p2.x - p1.x| when outside
\* the y range and inside the x range, aligned and the Euclidean distance
\* otherwise; the preview of handleMouseMove gives the same mode and value.
C20_ModeByPlacement ==
    \A m \in PlacedDistances :
        <<m.smartMode, m.valueSq>> = ModeByPlacement(m.points[1], m.points[2], m.placementPoint)

\* a horizontal measurement has been placed and the preview of the next one,
\* still to be placed, is vertical
C20_Witness ==
    /\ mActiveTool = "distance" /\ Len(mPoints) = 2 /\ mEvent = "move"
    /\ \E m \in PlacedDistances : ~m.isPreview /\ m.smartMode = "horizontal"
    /\ \E m \in PlacedDistances : m.isPreview /\ m.smartMode = "vertical"

\* C30: whenever no measurement is in progress (the point count is 0), no
\* entry of renderer.measurements is a preview.
C30_NoPreviewAtRest ==
    Len(mPoints) = 0 =>
        \A n \in 1..Len(mMeasurements) : ~mMeasurements[n].isPreview


(***************************************************************************)
(* Properties of the entity records of DXFParser                           *)
(***************************************************************************)
\* the entity kinds parseEntity has a handler for
EntityKinds ==
    {"LINE", "CIRCLE", "ARC", "LWPOLYLINE", "POLYLINE", "HATCH", "TEXT", "MTEXT",
     "DIMENSION", "POINT", "INSERT"}

\* C24: a record of the ENTITIES section whose type is not one of the
\* recognised entity kinds adds no entry to the returned entities list: every
\* entry of the list has a recognised type.
C24_UnknownEntitySkipped ==
    (pCalls = 1 /\ "entities" \in DOMAIN pResult) =>
        \A k \in 1..Len(pResult.entities) : pResult.entities[k].type \in EntityKinds

\* The records of a text, read from the lines alone: a record starts at each
\* group code 0 and runs to the next one.
RecordStarts(lines) ==
    {i \in 0..(Len(lines) - 1) : i % 2 = 0 /\ parseInt(At(lines, i)) = 0}
NextStart(lines, i) ==
    LET later == {j \in RecordStarts(lines) : j > i}
    IN  IF later = {} THEN Len(lines) ELSE CHOOSE j \in later : \A k \in later : j <= k
\* the value of the last group with this code in the record at `start`
GroupValue(lines, start, code, default) ==
    LET at == {j \in (start + 2)..(NextStart(lines, start) - 1) :
                  j % 2 = 0 /\ parseInt(At(lines, j)) = code}
    IN  IF at = {} THEN default
        ELSE parseFloat(At(lines, (CHOOSE j \in at : \A k \in at : j >= k) + 1))
\* the starts of the VERTEX records that follow one another from index i on
RECURSIVE VertexRun(_, _)
VertexRun(lines, i) ==
    IF i < Len(lines) /\ At(lines, i + 1) = "VERTEX"
    THEN <<i>> \o VertexRun(lines, NextStart(lines, i))
    ELSE <<>>
\* the start of the record after the VERTEX run of the record at s
RunEnd(lines, s) ==
    LET run == VertexRun(lines, NextStart(lines, s))
    IN  IF run = <<>> THEN NextStart(lines, s) ELSE NextStart(lines, run[Len(run)])
\* the POLYLINE records of an ENTITIES section that opens the text which have
\* group 66 = 1 and are followed by VERTEX records and a SEQEND
PolylineRuns(lines) ==
    {s \in RecordStarts(lines) :
        /\ Len(lines) >= 4
        /\ SubSeq(lines, 1, 4) = <<"0", "SECTION", "2", "ENTITIES">>
        /\ At(lines, s + 1) = "POLYLINE"
        /\ GroupValue(lines, s, 66, 0) = 1
        /\ RunEnd(lines, s) < Len(lines)
        /\ At(lines, RunEnd(lines, s) + 1) = "SEQEND"}

\* C22: a POLYLINE record with group 66 = 1 followed by k VERTEX records and a
\* SEQEND yields one POLYLINE entity whose vertex list holds those k vertices
\* in file order (x from code 10, y from code 20, bulge from code 42, each 0
\* when absent); no entity is read from inside the run, and the record after
\* the SEQEND is parsed as the next entity.
C22_PolylineVertexRun ==
    (pCalls = 1 /\ "entities" \in DOMAIN pResult) =>
        \A s \in PolylineRuns(pLines) :
            LET run == VertexRun(pLines, NextStart(pLines, s))
                q == RunEnd(pLines, s)
                t == NextStart(pLines, q)
                entities == pResult.entities
            IN  \E n \in 1..Len(entities) :
                    /\ entities[n].type = "POLYLINE"
                    /\ entities[n]._endIndex = q + 2
                    /\ entities[n].vertices =
                           [k \in 1..Len(run) |->
                               [x |-> GroupValue(pLines, run[k], 10, 0),
                                y |-> GroupValue(pLines, run[k], 20, 0),
                                bulge |-> GroupValue(pLines, run[k], 42, 0)]]
                    /\ \A m \in 1..Len(entities) :
                           m # n => ~(entities[m]._endIndex > s /\ entities[m]._endIndex <= q + 2)
                    /\ (t < Len(pLines) /\ At(pLines, t + 1) # "ENDSEC") =>
                           /\ n < Len(entities)
                           /\ entities[n + 1] = parseEntity(pLines, t, At(pLines, t + 1))

\* a run of three vertices, one of them with a bulge and one without a y, has
\* been read and a LINE follows its SEQEND
C22_Witness ==
    /\ pCalls = 1
    /\ \E s \in PolylineRuns(pLines) :
          /\ Len(VertexRun(pLines, NextStart(pLines, s))) = 3
          /\ At(pLines, NextStart(pLines, RunEnd(pLines, s)) + 1) = "LINE"
    /\ \E n \in 1..(Len(pResult.entities) - 1) :
          /\ Len(pResult.entities[n].vertices) = 3
          /\ pResult.entities[n].vertices[2] = [x |-> 3, y |-> 0, bulge |-> 1]
          /\ pResult.entities[n + 1].type = "LINE"

\* The text opens an ENTITIES section whose first record is a HATCH; its
\* groups are at the even indexes from 6 on.
HatchText(lines) ==
    Len(lines) >= 6 /\ SubSeq(lines, 1, 6) = <<"0", "SECTION", "2", "ENTITIES", "0", "HATCH">>
CodeAt(lines, n) == parseInt(At(lines, n))
\* the indexes of the groups of the HATCH record; the last group of a text
\* cut off behind a group code has no value
HatchGroups(lines) == {n \in 6..(NextStart(lines, 4) - 1) : n % 2 = 0}
\* the boundary loops of the HATCH once the groups before index n are read
LoopsAfter(lines, n) ==
    LET entity == parseEntity(SubSeq(lines, 1, IF n > Len(lines) THEN Len(lines) ELSE n),
                              4, "HATCH")
    IN  IF "loops" \in DOMAIN entity THEN entity.loops ELSE <<>>
\* a code 97 or 98 has been read before index n and no code 92 since
GeometryEnded(lines, n) ==
    \E j \in HatchGroups(lines) :
        /\ j < n
        /\ CodeAt(lines, j) \in {97, 98}
        /\ \A k \in HatchGroups(lines) : (j < k /\ k < n) => CodeAt(lines, k) # 92
CoordinateCodes == {10, 20, 11, 21, 40, 42, 50, 51}
\* the index of the group with the m-th code 92, and the code 10 groups
\* between it and the next code 92, 97 or 98
LoopOpenings(lines) == {n \in HatchGroups(lines) : CodeAt(lines, n) = 92}
OpeningOf(lines, m) ==
    CHOOSE n \in LoopOpenings(lines) :
        Cardinality({k \in LoopOpenings(lines) : k <= n}) = m
VertexGroupsOf(lines, m) ==
    {n \in HatchGroups(lines) :
        /\ n > OpeningOf(lines, m)
        /\ CodeAt(lines, n) = 10
        /\ \A k \in HatchGroups(lines) :
               (OpeningOf(lines, m) < k /\ k < n) => CodeAt(lines, k) \notin {92, 97, 98}}

\* C23: in a HATCH record, once group code 97 or 98 has been read, no later
\* coordinate code (10, 20, 11, 21, 40, 42, 50, 51) adds to or changes the
\* vertices or edges of any boundary loop until a code 92 opens another loop;
\* the polyline loops of the parsed HATCH hold one vertex per code 10 read
\* between their code 92 and the next code 92, 97 or 98, so no seed point is
\* among them.
C23_GeometryEndsAt97 ==
    (pCalls = 1 /\ HatchText(pLines)) =>
        /\ \A n \in HatchGroups(pLines) :
              (GeometryEnded(pLines, n) /\ CodeAt(pLines, n) \in CoordinateCodes) =>
                  LoopsAfter(pLines, n + 2) = LoopsAfter(pLines, n)
        /\ LET loops == IF "loops" \in DOMAIN pResult.entities[1]
                        THEN pResult.entities[1].loops ELSE <<>>
           IN  /\ Len(loops) = Cardinality(LoopOpenings(pLines))
               /\ \A m \in 1..Len(loops) :
                      loops[m].isPolyline =>
                          Len(loops[m].vertices) = Cardinality(VertexGroupsOf(pLines, m))

\* a HATCH with a polyline loop of two vertices closed by code 97, and after
\* it seed points with codes 10, 20 and 42 behind code 98, has been parsed
C23_Witness ==
    /\ pCalls = 1
    /\ HatchText(pLines)
    /\ \E n \in HatchGroups(pLines) :
          /\ GeometryEnded(pLines, n)
          /\ CodeAt(pLines, n) = 42
          /\ \E j \in HatchGroups(pLines) : j < n /\ CodeAt(pLines, j) = 98
    /\ pResult.entities[1].type = "HATCH"
    /\ Len(pResult.entities[1].loops) = 2
    /\ pResult.entities[1].loops[1].isPolyline
    /\ Len(pResult.entities[1].loops[1].vertices) = 2

\* the group that opened the loop a group at index n belongs to: the last code
\* 92 before n with no code 97 or 98 behind it; 0 when there is none
OpeningBefore(lines, n) ==
    LET open == {o \in LoopOpenings(lines) :
                    /\ o < n
                    /\ \A k \in HatchGroups(lines) :
                           (o < k /\ k < n) => CodeAt(lines, k) \notin {92, 97, 98}}
    IN  IF open = {} THEN 0 ELSE CHOOSE o \in open : TRUE
\* the place of that loop among the loops of the record
LoopNumber(lines, o) == Cardinality({k \in LoopOpenings(lines) : k <= o})
\* the count the last code 93 of the loop declared before index n, 0 without one
DeclaredBefore(lines, n) ==
    LET o == OpeningBefore(lines, n)
        counts == {k \in HatchGroups(lines) : o < k /\ k < n /\ CodeAt(lines, k) = 93}
    IN  IF counts = {} THEN 0
        ELSE parseInt(At(lines, (CHOOSE k \in counts : \A j \in counts : k >= j) + 1))
\* the groups with code 72 inside an edge-style loop
EdgeAnnouncements(lines) ==
    {n \in HatchGroups(lines) :
        /\ CodeAt(lines, n) = 72
        /\ OpeningBefore(lines, n) # 0
        /\ ~PolylineFlag(parseInt(At(lines, OpeningBefore(lines, n) + 1)))}
\* the groups behind the announcement at n, up to the next code 72 or 92
FollowingGroups(lines, n) ==
    {k \in HatchGroups(lines) :
        /\ k > n
        /\ \A j \in HatchGroups(lines) : (n < j /\ j <= k) => CodeAt(lines, j) \notin {72, 92}}

\* C29: for every edge-style boundary loop of a parsed HATCH, itemCount is the
\* number of stored edges; code 72 stores an edge only while fewer edges are
\* stored than the last code 93 of the loop has declared, so the number never
\* exceeds that count; an edge announced beyond it is dropped and the
\* coordinate codes that follow it change no loop.
C29_EdgeCountWithinDeclared ==
    (pCalls = 1 /\ HatchText(pLines)) =>
        /\ LET loops == IF "loops" \in DOMAIN pResult.entities[1]
                        THEN pResult.entities[1].loops ELSE <<>>
           IN  \A m \in 1..Len(loops) :
                   ~loops[m].isPolyline => loops[m].itemCount = Len(loops[m].edges)
        /\ \A n \in EdgeAnnouncements(pLines) :
              LET m == LoopNumber(pLines, OpeningBefore(pLines, n))
                  before == LoopsAfter(pLines, n)
                  behind == LoopsAfter(pLines, n + 2)
                  was == Head(SubSeq(before, m, m))
                  is == Head(SubSeq(behind, m, m))
                  declared == DeclaredBefore(pLines, n)
              IN  IF Len(was.edges) < declared
                  THEN /\ Len(is.edges) = Len(was.edges) + 1
                       /\ is.itemCount = Len(is.edges)
                       /\ is.itemCount <= declared
                  ELSE /\ behind = before
                       /\ \A k \in FollowingGroups(pLines, n) :
                              CodeAt(pLines, k) \in CoordinateCodes =>
                                  LoopsAfter(pLines, k + 2) = before

\* an edge loop that declares two edges has been parsed from a record that
\* announces three, the third one followed by coordinate codes
C29_Witness ==
    /\ pCalls = 1
    /\ HatchText(pLines)
    /\ \E n \in EdgeAnnouncements(pLines) :
          /\ DeclaredBefore(pLines, n) = 2
          /\ LET m == LoopNumber(pLines, OpeningBefore(pLines, n))
             IN  Len(Head(SubSeq(LoopsAfter(pLines, n), m, m)).edges) = 2
          /\ \E k \in FollowingGroups(pLines, n) : CodeAt(pLines, k) = 11 /\ k + 2 <= Len(pLines)
    /\ Len(pResult.entities[1].loops) = 2
    /\ Len(pResult.entities[1].loops[2].edges) = 2
    /\ pResult.entities[1].loops[2].itemCount = 2

IsPrefix(a, b) == Len(a) <= Len(b) /\ SubSeq(b, 1, Len(a)) = a
AllButLast(s) == SubSeq(s, 1, Len(s) - 1)
\* the result of parsing a whole text with a new parser
FullResult(text) == ParseResult(ParseLoop(text, 0, NewParser))
\* every scanning operation called at index i returns an index behind the
\* record or section it was called for
ScansAdvance(lines) ==
    \A i \in 0..Len(lines) :
        i % 2 = 0 =>
            /\ parseEntity(lines, i, At(lines, i + 1))._endIndex >= i + 2
            /\ parseEntity(lines, i, At(lines, i + 1))._endIndex <= Len(lines) + 2
            /\ LET r == parsePolylineVertices(lines, i, [type |-> "POLYLINE", vertices |-> <<>>])
               IN  /\ r.i >= i
                   /\ (i < Len(lines) /\ parseInt(At(lines, i)) = 0
                          /\ At(lines, i + 1) \in {"VERTEX", "SEQEND"}) => r.i >= i + 2
            /\ parseSection(lines, i, NewParser).i >= i + 2
            /\ parseTable(lines, i, NewParser).i >= i + 2
            /\ parseLayer(lines, i, NewParser).i >= i
            /\ parseLinetype(lines, i, NewParser).i >= i
            /\ ParseBlockHeader(lines, i, [entities |-> <<>>]).i >= i

\* C21: parse of a text cut off anywhere (in a section, a table, a block, an
\* entity or a VERTEX run) ends, every scanning loop advancing the line index,
\* and returns a result object, no exception thrown; the result holds the
\* records the whole text gives before the place of the cut: each entity that
\* ends, with the head of the next record, before the cut, at the same place
\* of the list; all its layers, linetypes and header variables but the last
\* one of each, which the cut may have left partial; and its blocks are blocks
\* of the whole text.
C21_TruncatedTextParses ==
    pCalls = 1 =>
        /\ ScansAdvance(pLines)
        /\ DOMAIN pResult = {"entities", "layers", "linetypes", "header", "blocks"}
        /\ \A text \in RecordTexts :
              IsPrefix(pLines, text) =>
                  /\ \A k \in 1..Len(FullResult(text).entities) :
                         LET whole == Head(SubSeq(FullResult(text).entities, k, k))
                         IN  whole._endIndex + 2 <= Len(pLines) =>
                                 /\ k <= Len(pResult.entities)
                                 /\ pResult.entities[k] = whole
                  /\ IsPrefix(AllButLast(pResult.layers), FullResult(text).layers)
                  /\ IsPrefix(AllButLast(pResult.linetypes), FullResult(text).linetypes)
                  /\ IsPrefix(AllButLast(pResult.header), FullResult(text).header)
                  /\ IsPrefix(pResult.blocks, FullResult(text).blocks)

\* a text cut off inside the second VERTEX of a run has been parsed: the
\* result ends with the POLYLINE and the two vertices read so far
C21_Witness ==
    /\ pCalls = 1
    /\ pLines \notin RecordTexts
    /\ Len(pLines) % 2 = 1
    /\ At(pLines, Len(pLines) - 1) = "42"
    /\ Len(pResult.entities) = 1
    /\ pResult.entities[1].type = "POLYLINE"
    /\ Len(pResult.entities[1].vertices) = 2
    /\ pResult.entities[1].vertices[2].bulge = NaNInt

(***************************************************************************)
(* Properties of the bridge pruning of extractAllLoops                     *)
(***************************************************************************)
\* s2 is the path of s1 walked the other way: the ends exchanged and the same
\* curve between them (the bulge negated; both 0 for straight segments)
SamePathReversed(s1, s2) ==
    /\ matches(s1.p1, s2.p2)
    /\ matches(s1.p2, s2.p1)
    /\ s2.bulge = 0 - s1.bulge

\* C28: the pruning pass discards a pair of segments only when they are a
\* zero-width slit, the same path in opposite directions; two segments that
\* share both ends and enclose area (a chord and an arc over it, the two half
\* circles of a circle) are not discarded.
C28_OnlySlitsPruned ==
    (lPc = "extract" /\ lI = 1) =>
        \A i \in lUsed :
            \E j \in lUsed : j # i /\ SamePathReversed(lSegments[i], lSegments[j])

(***************************************************************************)
(* Properties of the geometry functions                                    *)
(***************************************************************************)
\* twice the signed shoelace sum of a polygon, on the coordinates as given
RECURSIVE Shoelace2(_, _)
Shoelace2(vertices, k) ==
    IF k > Len(vertices) THEN 0
    ELSE LET v == vertices[k]
             w == vertices[(k % Len(vertices)) + 1]
         IN  (v.x * w.y - w.x * v.y) + Shoelace2(vertices, k + 1)
\* the polygon listed from its vertex r + 1 on, and moved by (dx, dy)
Rotated(vertices, r) ==
    [k \in 1..Len(vertices) |-> vertices[((k + r - 1) % Len(vertices)) + 1]]
Translated(vertices, dx, dy) ==
    [k \in 1..Len(vertices) |-> [vertices[k] EXCEPT !.x = @ + dx, !.y = @ + dy]]
Offsets == {-1000000, -7, 0, 5, 1000000}

\* C25: for a closed polygon with straight edges and at least 3 vertices
\* calculateGeometricArea returns the absolute value of the shoelace area
\* (kept as the pair (4 * area, 0)), and the same value for every cyclic
\* rotation of the vertex list and every translation of all vertices.
C25_ShoelaceArea ==
    (kPc = "done" /\ kCall.op = "calculateGeometricArea" /\ Len(kCall.vertices) >= 3) =>
        /\ kResult = [i |-> 2 * Abs(Shoelace2(kCall.vertices, 1)), p |-> 0]
        /\ \A r \in 0..(Len(kCall.vertices) - 1) :
              calculateGeometricArea(Rotated(kCall.vertices, r)) = kResult
        /\ \A dx \in Offsets, dy \in Offsets :
              calculateGeometricArea(Translated(kCall.vertices, dx, dy)) = kResult

\* the area of a clockwise quadrilateral that does not start at the origin
\* has been computed: 12 square units
C25_Witness ==
    /\ kPc = "done"
    /\ kCall.op = "calculateGeometricArea"
    /\ kCall.vertices = <<[x |-> 4, y |-> 3, bulge |-> 0], [x |-> 4, y |-> 0, bulge |-> 0],
                          [x |-> 0, y |-> 0, bulge |-> 0], [x |-> 0, y |-> 3, bulge |-> 0]>>
    /\ Shoelace2(kCall.vertices, 1) < 0
    /\ kResult = [i |-> 48, p |-> 0]

\* the vector (vx, vy) turned by q quarter turns
Turned(vx, vy, q) ==
    [x |-> vx * CosQ(q) - vy * SinQ(q), y |-> vx * SinQ(q) + vy * CosQ(q)]
\* walking the arc from startAngle to endAngle, in the direction it names, at
\* its radius about its centre, ends at p: the direction of endAngle is the
\* direction from the centre to p, p lies at the radius from the centre, and
\* the angle grows exactly when the arc is counter-clockwise
WalkEndsAt(arc, p) ==
    LET d == Turned(arc.endAngle.vx, arc.endAngle.vy, arc.endAngle.quadrants)
        tx == 2 * p.x - arc.cx2
        ty == 2 * p.y - arc.cy2
    IN  /\ d.x * ty - d.y * tx = 0
        /\ d.x * tx + d.y * ty > 0
        /\ tx * tx + ty * ty = arc.radiusSq4
        /\ arc.startAngle.vx = arc.endAngle.vx /\ arc.startAngle.vy = arc.endAngle.vy
        /\ arc.counterClockwise <=> (arc.endAngle.quadrants > arc.startAngle.quadrants)

\* C26: for any vertex pair p1, p2 and any bulge other than 0, bulgeToArc
\* returns an arc, and walking it from its startAngle to its endAngle in the
\* returned direction, at the returned radius about the returned centre, ends
\* at p2.
C26_BulgeRoundTrip ==
    (kPc = "done" /\ kCall.op = "bulgeToArc" /\ kCall.bulge # 0) =>
        /\ kResult # Null
        /\ WalkEndsAt(kResult, kCall.p2)

\* C27: for a list of at least one point, minimumEnclosingCircle returns, for
\* every outcome of its random shuffle, the circle it returns when the shuffle
\* leaves the list as it is (same centre, same radius), and that circle
\* contains every point of the list.  The points are read from the call and
\* the distances are computed here, not by circleContains.
SameCircle(c1, c2) ==
    /\ c1.cxn * c2.den = c2.cxn * c1.den
    /\ c1.cyn * c2.den = c2.cyn * c1.den
    /\ c1.r2n * c2.den * c2.den = c2.r2n * c1.den * c1.den
NoSwap(n) == [i \in 2..n |-> i]
Encloses(c, p) ==
    LET ex == p.x * c.den - c.cxn
        ey == p.y * c.den - c.cyn
    IN  ex * ex + ey * ey <= c.r2n
C27_EnclosingCircleAnyOrder ==
    (kPc = "done" /\ kCall.op = "minimumEnclosingCircle" /\ Len(kCall.points) >= 1) =>
        /\ "r2n" \in DOMAIN kResult
        /\ SameCircle(kResult,
                      minimumEnclosingCircle(kCall.points, NoSwap(Len(kCall.points))))
        /\ \A k \in 1..Len(kCall.points) : Encloses(kResult, kCall.points[k])
\* three points of an acute triangle and one inside it, shuffled, so that the
\* circle through three points is the answer
C27_Witness ==
    /\ kPc = "done"
    /\ kCall.op = "minimumEnclosingCircle"
    /\ kCall.points = <<Pt(0, 0), Pt(4, 0), Pt(2, 3), Pt(1, 1)>>
    /\ kCall.js # NoSwap(4)
    /\ kResult.den \notin {1, 2}
    /\ \A k \in 1..4 : Encloses(kResult, kCall.points[k])
=============================================================================
